---- MODULE Spec2Model ----
(***************************************************************************)
(* Research aggregation and caching engine of ai-content-studio:           *)
(* ResearchService (backend/research_service.py) over ResearchDatabase     *)
(* (backend/database.py).                                                  *)
(*                                                                         *)
(* Conventions of the model                                                *)
(*   - time is counted in whole hours: `now` is datetime.now() and the     *)
(*     rate-limit hour bucket strftime("%Y%m%d%H") of a time is the time   *)
(*     itself;                                                             *)
(*   - a relevance score is the Python float (IEEE-754 double) the code     *)
(*     computes, with the rounding of every operation;                     *)
(*   - a title is a natural number standing for its rank in the            *)
(*     case-sensitive lexicographic order of the titles in play;           *)
(*   - an optional value (None / absent key) is a sequence of length 0,    *)
(*     a present value v is <<v>>;                                         *)
(*   - md5 and json.dumps(sort_keys=True) are injective on the modelled    *)
(*     filters, so a cache key is the pair <<query, filters>> with the     *)
(*     lists of the filters kept in the order given;                       *)
(*   - the aiohttp session is open (the service is used as                 *)
(*     `async with ResearchService()`, research_api.py:59);                *)
(*   - search calls _check_rate_limit with its default limit (100); the    *)
(*     model scales it down: `limit` is some value of 1..MaxLimit, the     *)
(*     same for every call of a behaviour.                                 *)
(***************************************************************************)
EXTENDS Integers, Sequences, FiniteSets, TLC

(***************************************************************************)
(* Bounds of the model.                                                    *)
(***************************************************************************)
NumProcs == 2        \* search invocations in one behaviour, each on the shared
                     \* ResearchService object or on one of its own
MaxLimit == 2        \* the limit argument of _check_rate_limit ranges over 1..MaxLimit
MaxClock == 6        \* the clock runs over the hours 0..MaxClock
MaxBucket == 1       \* the last hour bucket SpecRateLimit gets to
MaxCalls == 4        \* _check_rate_limit calls in one behaviour of SpecRateLimit
MaxSecond == 1       \* the clock's seconds run over 0..MaxSecond
MaxTurn == 3         \* inserts of one save_results call before the second passes
MaxRows == 4         \* rows of research_results in one behaviour of SpecPages
MaxPage == 3         \* get_query_results is asked for the pages 1..MaxPage
MaxPageSize == 2     \* ... with page_size in 1..MaxPageSize
MaxSets == 2         \* set_cache calls in one behaviour of SpecCache
MaxTTL == 2          \* ... with expires_in_hours in 1..MaxTTL
MaxCacheClock == 3   \* the last hour SpecCache gets to
MaxQueries == 3      \* save_query calls in one behaviour of SpecQueries
MaxHistory == 2      \* ... read with limit in 1..MaxHistory
MaxFiltered == 2     \* results in a list given to _filter_results in SpecFilter
MaxStages == 3       \* stages of the workflow run_workflow is configured with

(***************************************************************************)
(* Program constants.                                                      *)
(***************************************************************************)
ArxivMaxResults == 10     \* arxiv.Search(max_results=10)
PubMedCap == 3            \* soup.find_all(...)[:3]
WikipediaCap == 3         \* search_results[:3]
NewsCap == 3              \* soup.find_all('item')[:3]
WorldBankCap == 3         \* data[1][:3]
CensusCap == 2            \* relevant_datasets[:2]
FallbackWeight == 100     \* 'relevance_score': 0.1 of the arXiv error result, in thousandths
ResponseCap == 20         \* filtered_results[:20]
CacheTTLHours == 6        \* set_cache(..., expires_in_hours=6)

Procs == 1..NumProcs

\* the search the research agent of the executor makes, on a service object
\* and an event loop of its own (research_data/agent.py:29, 76)
AgentProc == 0

AllProcs == Procs \cup {AgentProc}
Instances == AllProcs
Hours == 0..MaxClock

Kinds == {"academic", "web", "statistics"}
ProviderNames == {"arXiv", "PubMed", "Wikipedia", "Google News",
                  "World Bank", "US Census Bureau"}

\* the title of the arXiv error result, f'arXiv Search Error for "{query}"'
ErrorTitle == 0

Min(a, b) == IF a < b THEN a ELSE b

\* s[:n]
Take(s, n) == SubSeq(s, 1, Min(n, Len(s)))

\* [s[k] for k in range(len(s)) if k in keep], from position k on
RECURSIVE SelectFrom(_, _, _)
SelectFrom(s, keep, k) ==
    IF k > Len(s) THEN <<>>
    ELSE (IF k \in keep THEN <<s[k]>> ELSE <<>>) \o SelectFrom(s, keep, k + 1)

\* [x for x in s if x is kept]: keep is the set of the positions kept
Select(s, keep) == SelectFrom(s, keep, 1)

InSeq(x, s) == \E k \in 1..Len(s) : s[k] = x

(***************************************************************************)
(* Python floats.  A float is an IEEE-754 double and every operation       *)
(* rounds its exact result to the nearest double, ties to the even         *)
(* mantissa.  A double x > 0 is [exp, hi, lo] with                         *)
(*     x = (hi * 2^27 + lo) * 2^(exp - 52),  2^52 <= hi * 2^27 + lo < 2^53 *)
(* so that doubles are ordered as the triples <<exp, hi, lo>> are; 0.0 is  *)
(* Zero.  The floats in play are scores and thresholds: none is negative,  *)
(* subnormal or near the overflow.  The exact sums and products are        *)
(* computed on numbers written in base 2^14, the lowest limb first, and    *)
(* rounded on their bits, the lowest first.                                *)
(***************************************************************************)
Zero == [exp |-> -1075, hi |-> 0, lo |-> 0]

Limb == 2^14

\* the w lowest bits of n
BitsOf(n, w) == [k \in 1..w |-> (n \div 2^(k - 1)) % 2]

\* the number with the given bits (below 2^31)
RECURSIVE NatOf(_)
NatOf(bits) ==
    IF Len(bits) = 0 THEN 0
    ELSE IF Len(bits) = 1 THEN bits[1]
    ELSE LET half == Len(bits) \div 2
         IN  NatOf(SubSeq(bits, 1, half))
             + 2^half * NatOf(SubSeq(bits, half + 1, Len(bits)))

Zeros(n) == [k \in 1..n |-> 0]

Reverse(s) == [k \in 1..Len(s) |-> s[Len(s) + 1 - k]]

\* from bits to limbs and back
ToLimbs(bits) ==
    [i \in 1..((Len(bits) + 13) \div 14) |->
        NatOf(SubSeq(bits, 14 * (i - 1) + 1, Min(14 * i, Len(bits))))]

ToBits(limbs) ==
    [k \in 1..(14 * Len(limbs)) |-> (limbs[(k - 1) \div 14 + 1] \div 2^((k - 1) % 14)) % 2]

\* the number of bits of the number: the position of its highest bit that is 1
Size(limbs) ==
    LET used == {i \in 1..Len(limbs) : limbs[i] # 0}
        top == CHOOSE i \in used : \A o \in used : o <= i
    IN  IF used = {} THEN 0
        ELSE 14 * (top - 1) + (CHOOSE w \in 1..14 : 2^(w - 1) <= limbs[top]
                                                      /\ limbs[top] < 2^w)

\* a + b + carry
RECURSIVE AddLimbs(_, _, _)
AddLimbs(a, b, carry) ==
    IF a = <<>> /\ b = <<>> THEN (IF carry = 0 THEN <<>> ELSE <<carry>>)
    ELSE LET sum == (IF a = <<>> THEN 0 ELSE Head(a))
                    + (IF b = <<>> THEN 0 ELSE Head(b)) + carry
         IN  <<sum % Limb>>
             \o AddLimbs(IF a = <<>> THEN a ELSE Tail(a),
                         IF b = <<>> THEN b ELSE Tail(b), sum \div Limb)

\* a * d + carry for one limb d
RECURSIVE MulLimb(_, _, _)
MulLimb(a, d, carry) ==
    IF a = <<>> THEN (IF carry = 0 THEN <<>> ELSE <<carry>>)
    ELSE <<(Head(a) * d + carry) % Limb>>
         \o MulLimb(Tail(a), d, (Head(a) * d + carry) \div Limb)

\* a * b
RECURSIVE MulLimbs(_, _)
MulLimbs(a, b) ==
    IF b = <<>> THEN <<>>
    ELSE AddLimbs(MulLimb(a, Head(b), 0), <<0>> \o MulLimbs(a, Tail(b)), 0)

\* the double with the exponent and the 53 bits of the mantissa
MkFloat(exp, bits) ==
    [exp |-> exp, hi |-> NatOf(SubSeq(bits, 28, 53)), lo |-> NatOf(SubSeq(bits, 1, 27))]

Mantissa(x) == BitsOf(x.lo, 27) \o BitsOf(x.hi, 26)

\* the next double above x
Successor(x) ==
    IF x.lo + 1 < 2^27 THEN [x EXCEPT !.lo = @ + 1]
    ELSE IF x.hi + 1 < 2^26 THEN [x EXCEPT !.hi = @ + 1, !.lo = 0]
    ELSE [exp |-> x.exp + 1, hi |-> 2^25, lo |-> 0]

\* the double nearest to n * 2^scale, n given by its limbs: the bits below
\* the 53 highest are cut, and the result is the next double when they are
\* more than half of the last place kept, or half of it and the mantissa is
\* odd
FloatRound(limbs, scale) ==
    LET n == ToBits(limbs)
        size == Size(limbs)
        cut == size - 53
        down == MkFloat(scale + size - 1, SubSeq(n, cut + 1, size))
        up == /\ n[cut] = 1
              /\ (n[cut + 1] = 1 \/ \E j \in 1..(cut - 1) : n[j] = 1)
    IN  IF size = 0 THEN Zero
        ELSE IF size <= 53
             THEN MkFloat(scale + size - 1, Zeros(53 - size) \o SubSeq(n, 1, size))
        ELSE IF up THEN Successor(down) ELSE down

\* the first n limbs of r / q behind the point for 0 <= r < q, the highest
\* first, and a last one that says whether a remainder is left
RECURSIVE Places(_, _, _)
Places(r, q, n) ==
    IF n = 0 THEN <<IF r = 0 THEN 0 ELSE 1>>
    ELSE <<(r * Limb) \div q>> \o Places((r * Limb) % q, q, n - 1)

\* the double nearest to p / q for naturals p < 2^28 and 0 < q < 2^17: what
\* a decimal literal, float() of a decimal text and int / int evaluate to.
\* The quotient is taken to 7 limbs behind the point, which leaves 81 bits
\* or more of it, with one more limb below them for what is left.
FloatOfRatio(p, q) ==
    FloatRound(Reverse(Places(p % q, q, 7)) \o <<(p \div q) % Limb, (p \div q) \div Limb>>,
               -112)

\* x + y
FloatAdd(x, y) ==
    IF x = Zero THEN y
    ELSE IF y = Zero THEN x
    ELSE LET low == Min(x.exp, y.exp)
         IN  FloatRound(AddLimbs(ToLimbs(Zeros(x.exp - low) \o Mantissa(x)),
                                 ToLimbs(Zeros(y.exp - low) \o Mantissa(y)), 0),
                        low - 52)

\* x * y
FloatMul(x, y) ==
    IF x = Zero \/ y = Zero THEN Zero
    ELSE FloatRound(MulLimbs(ToLimbs(Mantissa(x)), ToLimbs(Mantissa(y))),
                    x.exp + y.exp - 104)

\* x < y, x >= y
FloatLess(x, y) ==
    \/ x.exp < y.exp
    \/ x.exp = y.exp /\ (x.hi < y.hi \/ (x.hi = y.hi /\ x.lo < y.lo))

FloatGeq(x, y) == ~FloatLess(x, y)

\* min(x, y): the first of the two unless the second is smaller
FloatMin(x, y) == IF FloatLess(y, x) THEN y ELSE x

(***************************************************************************)
(* _calculate_relevance_score_text.  A text is the sequence of its         *)
(* characters.  The decimal literals of the function are given in          *)
(* thousandths; the score is the float the function computes.              *)
(***************************************************************************)
PhraseWeight == 400       \* score += 0.4 (exact phrase match), in thousandths
TermWeight == 400         \* (term_matches / len(query_terms)) * 0.4
ProximityBonus == 100     \* score += 0.1
ShortPenalty == 800       \* score *= 0.8
NeutralScore == 500       \* return 0.5
ScoreScale == 1000        \* 1.0 in thousandths

\* the float of a decimal literal
Decimal(thousandths) == FloatOfRatio(thousandths, ScoreScale)

One == Decimal(ScoreScale)

FallbackScore == Decimal(FallbackWeight)
MinTermLen == 2           \* len(term.strip()) > 2
ProximityWindow == 50     \* distance < 50
ShortTextLen == 100       \* len(text) < 100

\* str.lower() on the characters in play
LowerChar(c) == CASE c = "A" -> "a" [] c = "B" -> "b" [] c = "C" -> "c" [] OTHER -> c

Lower(text) == [k \in 1..Len(text) |-> LowerChar(text[k])]

\* str.split(): the maximal runs of characters that are no whitespace
RECURSIVE SplitFrom(_, _, _)
SplitFrom(text, k, word) ==
    IF k > Len(text) THEN (IF word = <<>> THEN <<>> ELSE <<word>>)
    ELSE IF text[k] = " "
         THEN (IF word = <<>> THEN <<>> ELSE <<word>>) \o SplitFrom(text, k + 1, <<>>)
         ELSE SplitFrom(text, k + 1, Append(word, text[k]))

Split(text) == SplitFrom(text, 1, <<>>)

\* text.find(sub): the index, from 0, of the first occurrence, or -1
Find(text, sub) ==
    LET at == {k \in 0..(Len(text) - Len(sub)) :
                    SubSeq(text, k + 1, k + Len(sub)) = sub}
    IN  IF at = {} THEN -1 ELSE CHOOSE k \in at : \A o \in at : k <= o

\* sub in text
Contains(text, sub) == Find(text, sub) >= 0

Abs(x) == IF x < 0 THEN -x ELSE x

\* [term.strip() for term in query.lower().split() if len(term.strip()) > 2]
QueryTerms(query) ==
    LET words == Split(Lower(query))
    IN  Select(words, {k \in 1..Len(words) : Len(words[k]) > MinTermLen})

\* the pairs (i, j), i < j, of positions of query_terms that get the proximity bonus
ClosePairs(text_lower, query_terms) ==
    {ij \in (1..Len(query_terms)) \X (1..Len(query_terms)) :
        /\ ij[1] < ij[2]
        /\ Contains(text_lower, query_terms[ij[1]])
        /\ Contains(text_lower, query_terms[ij[2]])
        /\ Abs(Find(text_lower, query_terms[ij[1]])
               - Find(text_lower, query_terms[ij[2]])) < ProximityWindow}

\* return min(1.0, score)
ClipNone(score) == score

Clip(score) == FloatMin(One, score)

\* score += bonus, n times
RECURSIVE AddTimes(_, _, _)
AddTimes(score, bonus, n) ==
    IF n = 0 THEN score ELSE AddTimes(FloatAdd(score, bonus), bonus, n - 1)

CalculateRelevanceScoreText(text, query) ==
    IF text = <<>> \/ query = <<>> THEN Zero
    ELSE LET text_lower == Lower(text)
             query_terms == QueryTerms(query)
             n == Len(query_terms)
             phrase == IF Contains(text_lower, Lower(query))
                       THEN FloatAdd(Zero, Decimal(PhraseWeight))
                       ELSE Zero
             term_matches == Cardinality({k \in 1..n : Contains(text_lower, query_terms[k])})
             term_score == FloatMul(FloatOfRatio(term_matches, n), Decimal(TermWeight))
             score == AddTimes(FloatAdd(phrase, term_score), Decimal(ProximityBonus),
                               Cardinality(ClosePairs(text_lower, query_terms)))
         IN  IF n = 0 THEN Decimal(NeutralScore)
             ELSE Clip(IF Len(text) < ShortTextLen
                       THEN FloatMul(score, Decimal(ShortPenalty))
                       ELSE score)

\* the texts and the queries the scorer is given: up to three words, apart
\* by the given numbers of blanks, with blanks behind them
Blanks(n) == [k \in 1..n |-> " "]

Word(c) == <<c, c, c>>

ScorerTexts ==
    {<<>>} \cup
    {first \o Blanks(gap) \o second \o Blanks(1) \o third \o Blanks(tail) :
        first \in {<<>>, Word("a"), <<"A", "a", "a">>},
        gap \in {1, ProximityWindow - 4, ProximityWindow - 3},
        second \in {<<>>, Word("b")},
        third \in {<<>>, Word("c")},
        tail \in {0, ShortTextLen}}

ScorerQueries ==
    {<<>>, <<"a", "b">>, Word("a"), Word("a") \o Blanks(1) \o Word("b"),
     <<"A", "a", "a">> \o Blanks(1) \o Word("b"),
     Word("a") \o Blanks(1) \o Word("b") \o Blanks(1) \o Word("c"),
     Word("a") \o Blanks(1) \o Word("a"),
     Word("a") \o Blanks(1) \o Word("a") \o Blanks(1) \o Word("b")}

(***************************************************************************)
(* Queries, users and filters given to search.                             *)
(***************************************************************************)
\* the queries given to search, and their characters
ScoredQuery == "aaa bbb ccc"
CensusQuery == "aaa bbb census"

\* the query the research agent falls back to (research_data/agent.py:70),
\* and the queries it makes of the texts earlier stages leave in the context
AgentQuery == "business strategy"

AgentQueries ==
    {AgentQuery, "business strategy data", "trends", "trends data", "data", "ABC"}

QueryTexts == {ScoredQuery, CensusQuery}
UserIds == {"u1"}

Census == <<"c", "e", "n", "s", "u", "s">>

Business == <<"b", "u", "s", "i", "n", "e", "s", "s">>
Strategy == <<"s", "t", "r", "a", "t", "e", "g", "y">>
Trends == <<"t", "r", "e", "n", "d", "s">>
Data == <<"d", "a", "t", "a">>

QueryChars(query) ==
    CASE query = ScoredQuery ->
            Word("a") \o Blanks(1) \o Word("b") \o Blanks(1) \o Word("c")
      [] query = CensusQuery ->
            Word("a") \o Blanks(1) \o Word("b") \o Blanks(1) \o Census
      [] query = AgentQuery -> Business \o Blanks(1) \o Strategy
      [] query = "business strategy data" ->
            Business \o Blanks(1) \o Strategy \o Blanks(1) \o Data
      [] query = "trends" -> Trends
      [] query = "trends data" -> Trends \o Blanks(1) \o Data
      [] query = "data" -> Data
      [] query = "ABC" -> <<"A", "B", "C">>
      [] OTHER -> <<>>

\* 'united states' in q or 'us ' in q or 'census' in q   (query.lower())
MentionsCensus(query) ==
    LET q == Lower(QueryChars(query)) IN
    \/ Contains(q, <<"u", "n", "i", "t", "e", "d", " ", "s", "t", "a", "t", "e", "s">>)
    \/ Contains(q, <<"u", "s", " ">>)
    \/ Contains(q, Census)

\* float(filters['min_relevance']): the double nearest to the decimal number or
\* text with the given hundredths
Threshold(hundredths) == FloatOfRatio(hundredths, 100)

(***************************************************************************)
(* The texts (title + " " + summary) of the items the providers deliver    *)
(* for a query of three terms, and the scores the scorer gives them.  In   *)
(* PhraseText the first term stands alone, far ahead of the whole query:   *)
(* the phrase and every term are found, and the first occurrences of the   *)
(* second and the third term alone are close.  In ApartText the terms      *)
(* stand in another order, the first one far from the others.  NearText is *)
(* the three terms alone in another order: a short text whose score is the *)
(* double next below 0.56.                                                 *)
(***************************************************************************)
PhraseText(query) ==
    Split(query)[1] \o Blanks(ProximityWindow + 10) \o query \o Blanks(ShortTextLen)

ApartText(query) ==
    Split(query)[1] \o Blanks(ProximityWindow + 10) \o Split(query)[3] \o Blanks(1)
    \o Split(query)[2] \o Blanks(ShortTextLen)

NearText(query) ==
    Split(query)[1] \o Blanks(1) \o Split(query)[3] \o Blanks(1) \o Split(query)[2]

ScoreOfText(text, query) == CalculateRelevanceScoreText(text, query)

\* the two scores the providers' items carry: 0.9 and 0.5, under either query
HighScore == ScoreOfText(PhraseText(QueryChars(ScoredQuery)), QueryChars(ScoredQuery))
LowScore == ScoreOfText(ApartText(QueryChars(ScoredQuery)), QueryChars(ScoredQuery))

\* 0.5599999999999999
NearScore == ScoreOfText(NearText(QueryChars(ScoredQuery)), QueryChars(ScoredQuery))

NoFilters ==
    [sources |-> <<>>, data_types |-> <<>>, date_from |-> <<>>,
     date_to |-> <<>>, min_relevance |-> <<>>]

WebOnly == [NoFilters EXCEPT !.sources = <<"web">>]

MinRelevance(v) == [NoFilters EXCEPT !.min_relevance = <<[numeric |-> TRUE, v |-> v]>>]

(***************************************************************************)
(* What a data provider hands to its connector: the items the connector's  *)
(* loop got through, and whether the provider call then raised.  An item   *)
(* is [title, score, date]: score is the value                             *)
(* _calculate_relevance_score_text gives the item's text, date the         *)
(* provider's own date field (paper.published, pubDate) when it has one.   *)
(***************************************************************************)
Item(t, sc) == [title |-> t, score |-> sc, date |-> <<>>]

\* an item whose score the connector computes from its text (title + " " + summary)
ScoredItem(t, text, query) ==
    [title |-> t, date |-> <<>>,
     score |-> CalculateRelevanceScoreText(text, QueryChars(query))]

Delivered(items) == [delivered |-> items, failed |-> FALSE]
FailedAfter(items) == [delivered |-> items, failed |-> TRUE]

\* A date text: an instant written without an offset (naive), with one
\* (aware, as arXiv's paper.published.isoformat() is) or in a form
\* fromisoformat rejects (Google News' pubDate).
IsoDate(fmt, t) == <<[fmt |-> fmt, t |-> t]>>

\* a min_relevance that float() rejects: 'high' or None
NotANumber == <<[numeric |-> FALSE, v |-> Zero]>>

NaiveIso(t) == <<[fmt |-> "naive", t |-> t]>>

\* one entry of a connector's result list
MkResult(item, source, data_type, publication_date) ==
    [title |-> item.title, source |-> source, relevance_score |-> item.score,
     data_type |-> data_type, publication_date |-> publication_date]

\* the result list a provider block builds; today is <<>> when the block sets no
\* publication date, own says whether the item's own date is used when it has one
MapResults(items, source, data_type, today, own) ==
    [k \in 1..Len(items) |->
        MkResult(items[k], source, data_type,
                 IF own /\ items[k].date # <<>> THEN items[k].date ELSE today)]

\* the except branch of the arXiv block: a fallback result that reports the error
ArxivErrorResult ==
    [title |-> ErrorTitle, source |-> "arXiv", relevance_score |-> FallbackScore,
     data_type |-> "error", publication_date |-> <<>>]

ArxivFallback(arxiv) == IF arxiv.failed THEN <<ArxivErrorResult>> ELSE <<>>

\* _search_academic_sources: arXiv, then PubMed
SearchAcademicSources(query, arxiv, pubmed, tnow) ==
    MapResults(Take(arxiv.delivered, ArxivMaxResults), "arXiv", "academic", <<>>, TRUE)
    \o ArxivFallback(arxiv)
    \o MapResults(Take(pubmed.delivered, PubMedCap), "PubMed", "academic",
                  NaiveIso(tnow), FALSE)

\* _search_web_sources: Wikipedia, when the connector is called (since), then
\* Google News, when its request is answered (tnow)
SearchWebSources(query, wikipedia, news, since, tnow) ==
    MapResults(Take(wikipedia.delivered, WikipediaCap), "Wikipedia", "encyclopedia",
               NaiveIso(since), FALSE)
    \o MapResults(Take(news.delivered, NewsCap), "Google News", "news",
                  NaiveIso(tnow), TRUE)

\* _search_statistical_sources: World Bank, then US Census when the query names it
SearchStatisticalSources(query, worldbank, census, tnow) ==
    MapResults(Take(worldbank.delivered, WorldBankCap), "World Bank", "statistics",
               <<>>, FALSE)
    \o (IF MentionsCensus(query)
        THEN MapResults(Take(census.delivered, CensusCap),
                        "US Census Bureau", "statistics", <<>>, FALSE)
        ELSE <<>>)

(***************************************************************************)
(* _filter_results.  The result is [raised, results]: float() of a         *)
(* min_relevance that is no number raises out of the function.             *)
(***************************************************************************)
source_mapping(source_type) ==
    CASE source_type = "academic" -> {"arXiv", "PubMed"}
      [] source_type = "web" -> {"Wikipedia", "Google News"}
      [] source_type = "statistics" -> {"World Bank", "US Census Bureau"}
      [] OTHER -> {source_type}

AllowedSourceNames(allowed_sources) ==
    UNION {source_mapping(allowed_sources[k]) : k \in 1..Len(allowed_sources)}

\* datetime.fromisoformat succeeds on the text
Parses(d) == d.fmt \in {"naive", "aware"}

\* a <= b on datetimes; comparing a naive with an aware datetime raises TypeError
CompareRaises(a, b) == a.fmt # b.fmt

\* lines 358-370: the date test of one result, with its two bare excepts
DateKeeps(result, date_from, date_to) ==
    LET pd == result.publication_date IN
    IF pd = <<>> THEN TRUE
    ELSE IF ~Parses(pd[1]) THEN TRUE
    ELSE IF CompareRaises(date_from, pd[1]) THEN TRUE
    ELSE IF ~(date_from.t <= pd[1].t) THEN FALSE
    ELSE IF CompareRaises(pd[1], date_to) THEN TRUE
    ELSE pd[1].t <= date_to.t

DateFilter(results, filters) ==
    IF filters.date_from # <<>> /\ filters.date_to # <<>>
       /\ Parses(filters.date_from[1]) /\ Parses(filters.date_to[1])
    THEN Select(results, {k \in 1..Len(results) :
                    DateKeeps(results[k], filters.date_from[1], filters.date_to[1])})
    ELSE results

SourceFilter(results, filters) ==
    IF filters.sources # <<>>
    THEN Select(results, {k \in 1..Len(results) :
                    results[k].source \in AllowedSourceNames(filters.sources)})
    ELSE results

DataTypeFilter(results, filters) ==
    IF filters.data_types # <<>>
    THEN Select(results, {k \in 1..Len(results) :
                    InSeq(results[k].data_type, filters.data_types)})
    ELSE results

RelevanceFilterStrict(results, filters) ==
    IF filters.min_relevance # <<>>
    THEN Select(results, {k \in 1..Len(results) :
                    FloatLess(filters.min_relevance[1].v, results[k].relevance_score)})
    ELSE results

RelevanceFilter(results, filters) ==
    IF filters.min_relevance # <<>>
    THEN Select(results, {k \in 1..Len(results) :
                    FloatGeq(results[k].relevance_score, filters.min_relevance[1].v)})
    ELSE results

FilterResults(results, filters) ==
    LET kept == DataTypeFilter(SourceFilter(DateFilter(results, filters), filters), filters)
    IN  IF filters.min_relevance # <<>> /\ ~filters.min_relevance[1].numeric
        THEN [raised |-> TRUE, results |-> <<>>]
        ELSE [raised |-> FALSE, results |-> RelevanceFilter(kept, filters)]

(***************************************************************************)
(* filtered_results.sort(key=relevance_score, reverse=True): list.sort is  *)
(* stable, also with reverse=True, so results of equal score keep the      *)
(* order in which the connectors appended them.                            *)
(***************************************************************************)
RECURSIVE InsertByScore(_, _)
InsertByScore(x, sorted) ==
    IF sorted = <<>> THEN <<x>>
    ELSE IF FloatGeq(sorted[1].relevance_score, x.relevance_score)
         THEN <<sorted[1]>> \o InsertByScore(x, Tail(sorted))
         ELSE <<x>> \o sorted

RECURSIVE SortPrefix(_, _)
SortPrefix(s, n) ==
    IF n = 0 THEN <<>> ELSE InsertByScore(s[n], SortPrefix(s, n - 1))

SortByRelevance(s) == SortPrefix(s, Len(s))

(***************************************************************************)
(* ResearchDatabase.  queries and results are the rows of research_queries *)
(* and research_results in insertion order (a row's id is its position);   *)
(* cache is the rows of research_cache in the order of their ids.          *)
(* created_at (DEFAULT CURRENT_TIMESTAMP) is the pair <<hour, second>> of   *)
(* the clock at the INSERT statement.  The text json.dumps stores is the document    *)
(* itself: the payloads in play have string keys and hold lists, strings,  *)
(* numbers and None, on which json.loads(json.dumps(d)) == d.              *)
(***************************************************************************)
Stamp(tnow, sec) == <<tnow, sec>>

\* a > b on timestamps
Later(a, b) == a[1] > b[1] \/ (a[1] = b[1] /\ a[2] > b[2])

\* _generate_cache_key
GenerateCacheKey(query, filters) == <<query, filters>>

\* save_query: the row inserted; its AUTOINCREMENT id is returned
QueryRow(queries, query_text, filters, user_id, stamp) ==
    [id |-> Len(queries) + 1, query_text |-> query_text, filters |-> filters,
     user_id |-> user_id, created_at |-> stamp, status |-> "pending"]

\* the next second of the same hour
SecondAfter(stamp) == <<stamp[1], stamp[2] + 1>>

\* save_results: one row per result, one transaction, one INSERT statement
\* per row, each with the CURRENT_TIMESTAMP of its own.  stamp is the clock
\* when the call begins; turn is the number of its inserts made before the
\* second of the clock passes (all of them: it does not pass during the call).
ResultRowsFirstPage(query_id, results, stamp, turn) ==
    [k \in 1..Min(Len(results), ResponseCap) |->
        [query_id |-> query_id, result |-> results[k],
         created_at |-> IF k <= turn THEN stamp ELSE SecondAfter(stamp)]]

ResultRows(query_id, results, stamp, turn) ==
    [k \in 1..Len(results) |->
        [query_id |-> query_id, result |-> results[k],
         created_at |-> IF k <= turn THEN stamp ELSE SecondAfter(stamp)]]

\* the positions of the rows of research_cache with the key
CacheRowsOf(cache, cache_key) == {k \in 1..Len(cache) : cache[k].cache_key = cache_key}

\* get_cached_data: WHERE cache_key = ? AND expires_at > now, fetchone();
\* the row's data, or None
GetCachedDataIgnoringExpiry(cache, cache_key, tnow) ==
    LET found == CacheRowsOf(cache, cache_key)
    IN  IF found # {}
        THEN <<cache[CHOOSE k \in found : \A o \in found : k <= o].data>>
        ELSE <<>>

GetCachedData(cache, cache_key, tnow) ==
    LET found == {k \in CacheRowsOf(cache, cache_key) : cache[k].expires_at > tnow}
    IN  IF found # {}
        THEN <<cache[CHOOSE k \in found : \A o \in found : k <= o].data>>
        ELSE <<>>

\* set_cache: INSERT OR REPLACE on the UNIQUE cache_key, with
\* expires_at = now + expires_in_hours; the row replaced is deleted and the
\* new row gets the next id
SetCacheKeepingFirst(cache, cache_key, data, expires_in_hours, tnow) ==
    IF CacheRowsOf(cache, cache_key) # {}
    THEN cache
    ELSE Append(cache, [cache_key |-> cache_key, data |-> data,
                        expires_at |-> tnow + expires_in_hours])

SetCacheAppending(cache, cache_key, data, expires_in_hours, tnow) ==
    Append(cache, [cache_key |-> cache_key, data |-> data,
                   expires_at |-> tnow + expires_in_hours])

SetCache(cache, cache_key, data, expires_in_hours, tnow) ==
    Append(Select(cache, (1..Len(cache)) \ CacheRowsOf(cache, cache_key)),
           [cache_key |-> cache_key, data |-> data,
            expires_at |-> tnow + expires_in_hours])

\* WHERE query_id = ?
QueryResultRows(results, query_id) ==
    Select(results, {k \in 1..Len(results) : results[k].query_id = query_id})

\* ORDER BY relevance_score DESC, created_at DESC: a comes before b
RowBefore(a, b) ==
    \/ FloatLess(b.result.relevance_score, a.result.relevance_score)
    \/ /\ a.result.relevance_score = b.result.relevance_score
       /\ Later(a.created_at, b.created_at)

\* rows equal on both sort keys come out in the order of their ids
RECURSIVE InsertRow(_, _)
InsertRow(x, sorted) ==
    IF sorted = <<>> THEN <<x>>
    ELSE IF RowBefore(x, sorted[1])
         THEN <<x>> \o sorted
         ELSE <<sorted[1]>> \o InsertRow(x, Tail(sorted))

RECURSIVE OrderRowsPrefix(_, _)
OrderRowsPrefix(rows, n) ==
    IF n = 0 THEN <<>> ELSE InsertRow(rows[n], OrderRowsPrefix(rows, n - 1))

OrderRows(rows) == OrderRowsPrefix(rows, Len(rows))

\* LIMIT page_size OFFSET (page - 1) * page_size, for page >= 1 and page_size >= 1
PageFromZero(rows, page, page_size) ==
    SubSeq(rows, page * page_size + 1, Min((page + 1) * page_size, Len(rows)))

Page(rows, page, page_size) ==
    SubSeq(rows, (page - 1) * page_size + 1, Min(page * page_size, Len(rows)))

\* get_query_results
GetQueryResults(results, query_id, page, page_size) ==
    LET mine == QueryResultRows(results, query_id)
        rows == Page(OrderRows(mine), page, page_size)
    IN  [results |-> [k \in 1..Len(rows) |->
                        [result |-> rows[k].result, created_at |-> rows[k].created_at]],
         total_count |-> Len(mine), page |-> page, page_size |-> page_size,
         total_pages |-> (Len(mine) + page_size - 1) \div page_size]

\* `if user_id:` on an Optional[str]
UserGiven(user_id) == user_id # <<>> /\ user_id[1] # ""

\* ORDER BY created_at DESC; rows of the same second come out in the order
\* of their ids
RECURSIVE InsertQuery(_, _)
InsertQuery(x, sorted) ==
    IF sorted = <<>> THEN <<x>>
    ELSE IF Later(x.created_at, sorted[1].created_at)
         THEN <<x>> \o sorted
         ELSE <<sorted[1]>> \o InsertQuery(x, Tail(sorted))

RECURSIVE OrderQueriesPrefix(_, _)
OrderQueriesPrefix(rows, n) ==
    IF n = 0 THEN <<>> ELSE InsertQuery(rows[n], OrderQueriesPrefix(rows, n - 1))

\* get_recent_queries, for limit >= 0
GetRecentQueries(queries, user_id, limit) ==
    LET mine == IF UserGiven(user_id)
                THEN Select(queries, {k \in 1..Len(queries) :
                                        queries[k].user_id = user_id[1]})
                ELSE queries
        rows == Take(OrderQueriesPrefix(mine, Len(mine)), limit)
    IN  [k \in 1..Len(rows) |->
            [id |-> rows[k].id, query_text |-> rows[k].query_text,
             filters |-> rows[k].filters, created_at |-> rows[k].created_at,
             status |-> rows[k].status]]

(***************************************************************************)
(* _check_rate_limit on the rate_limits dict of one service object.        *)
(***************************************************************************)
SourceKey(source, tnow) == <<source, tnow>>

\* the count after `if source_key not in self.rate_limits: ... = 0`
RateCount(rl, source_key) == IF source_key \in DOMAIN rl THEN rl[source_key] ELSE 0

RateLimitAllowsOffByOne(rl, source, limit, tnow) ==
    ~(RateCount(rl, SourceKey(source, tnow)) > limit)

\* the value returned
RateLimitAllows(rl, source, limit, tnow) ==
    ~(RateCount(rl, SourceKey(source, tnow)) >= limit)

\* the dict after the call
RateLimitsAfter(rl, source, limit, tnow) ==
    LET key == SourceKey(source, tnow)
        count == RateCount(rl, key)
    IN  [k \in DOMAIN rl \cup {key} |->
            IF k = key
            THEN (IF RateLimitAllows(rl, source, limit, tnow) THEN count + 1 ELSE count)
            ELSE rl[k]]

(***************************************************************************)
(* The provider outcomes the model draws from.  SmallDom keeps the runs    *)
(* with several searches small; WideDom, used for one search, has provider *)
(* failures, equal scores and full pages.                                  *)
(***************************************************************************)
\* n items with titles 1..n, scores alternating high and low
FullPage(n) == [k \in 1..n |-> Item(k, IF k % 2 = 1 THEN HighScore ELSE LowScore)]

\* what the provider returns at most: the connector's own cut plus one
ProviderCap(provider) ==
    CASE provider = "arXiv" -> ArxivMaxResults
      [] provider = "PubMed" -> PubMedCap + 1
      [] provider = "Wikipedia" -> WikipediaCap + 1
      [] provider = "Google News" -> NewsCap + 1
      [] provider = "World Bank" -> WorldBankCap + 1
      [] provider = "US Census Bureau" -> CensusCap + 1

SmallOutcomes(provider) ==
    CASE provider = "arXiv" -> {Delivered(<<Item(1, HighScore)>>)}
      [] provider = "Wikipedia" -> {Delivered(<<>>), Delivered(<<Item(1, HighScore)>>)}
      [] provider = "World Bank" -> {Delivered(<<Item(1, LowScore)>>)}
      [] OTHER -> {Delivered(<<>>)}

WideOutcomes(provider) ==
    {Delivered(<<>>), Delivered(<<Item(1, HighScore)>>),
     Delivered(FullPage(ProviderCap(provider)))}
    \cup (IF provider \in {"arXiv", "Wikipedia"} THEN {FailedAfter(<<>>)} ELSE {})

\* full pages from every provider but the Census one, with or without Wikipedia
BulkOutcomes(provider) ==
    CASE provider = "Wikipedia" ->
            {Delivered(<<>>), Delivered(FullPage(ProviderCap(provider)))}
      [] provider = "US Census Bureau" -> {Delivered(<<>>)}
      [] OTHER -> {Delivered(FullPage(ProviderCap(provider)))}

\* the query's three words next to each other in a short and in a long text,
\* the three in another order, and the first of them alone
ScoredTexts ==
    {Word("a") \o Blanks(1) \o Word("b") \o Blanks(1) \o Word("c") \o Blanks(tail) :
        tail \in {0, ShortTextLen}}
    \cup {NearText(QueryChars(ScoredQuery)), Word("a")}

\* items with the scores of the modelled texts from arXiv, which may fail,
\* and one from Wikipedia
ScoredOutcomes(provider) ==
    CASE provider = "arXiv" ->
            {Delivered(<<ScoredItem(1, text, ScoredQuery)>>) : text \in ScoredTexts}
            \cup {FailedAfter(<<>>)}
      [] provider = "Wikipedia" ->
            {Delivered(<<ScoredItem(2, Word("b") \o Blanks(1) \o Word("c"), ScoredQuery)>>)}
      [] OTHER -> {Delivered(<<>>)}

ScoredDom == [provider \in ProviderNames |-> ScoredOutcomes(provider)]
\* arXiv delivers or fails, Wikipedia delivers
DegradedOutcomes(provider) ==
    CASE provider = "arXiv" -> {Delivered(<<Item(1, HighScore)>>), FailedAfter(<<>>)}
      [] provider = "Wikipedia" -> {Delivered(<<Item(1, HighScore)>>)}
      [] OTHER -> {Delivered(<<>>)}

DegradedDom == [provider \in ProviderNames |-> DegradedOutcomes(provider)]
BulkDom == [provider \in ProviderNames |-> BulkOutcomes(provider)]
SmallDom == [provider \in ProviderNames |-> SmallOutcomes(provider)]
WideDom == [provider \in ProviderNames |-> WideOutcomes(provider)]

SmallFilters == {NoFilters, WebOnly}

\* the same two source kinds, listed in either order
OrderFilters ==
    {[NoFilters EXCEPT !.sources = <<"academic", "web">>],
     [NoFilters EXCEPT !.sources = <<"web", "academic">>]}

\* filters with a value that cannot be interpreted: a date that is no date, a
\* min_relevance that is no number
BadDateRange ==
    [NoFilters EXCEPT !.date_from = IsoDate("soon", 0), !.date_to = IsoDate("naive", 2)]

BadMinRelevance == [NoFilters EXCEPT !.min_relevance = NotANumber]

InvalidFilters == {NoFilters, BadDateRange, BadMinRelevance}

WideFilters == {NoFilters, WebOnly, MinRelevance(HighScore)}

(***************************************************************************)
(* State.                                                                  *)
(*   now          datetime.now(), in hours                                 *)
(*   seconds      the seconds of the clock within the hour                 *)
(*   limit        the limit _check_rate_limit is called with               *)
(*   rate_limits  self.rate_limits of every ResearchService object         *)
(*   queries, results, cache   the tables of the database file             *)
(*   proc         the search invocations: position (idle, awaiting the     *)
(*                connector of the kind `at`, called at the hour `since`,  *)
(*                blocked, done) and locals                                *)
(*   launches     per (source kind, hour): connector calls made, over all  *)
(*                service objects (history)                                *)
(*   allowLog     per service object and counter: the values               *)
(*                _check_rate_limit returned, in call order (history)      *)
(*   setLog       the set_cache calls that wrote their row, in call order   *)
(*                (history)                                                *)
(*   reply        the latest call of a read method of ResearchDatabase     *)
(*                made on its own, with what it returned                   *)
(*   workflow     the call of the AgentExecutor, run_workflow or           *)
(*                run_agent: its stages, its position, its context, its    *)
(*                local stages_completed, its result                       *)
(***************************************************************************)
VARIABLES now, seconds, limit, rate_limits, queries, results, cache, proc,
          launches, allowLog, setLog, reply, workflow

vars == <<now, seconds, limit, rate_limits, queries, results, cache, proc,
          launches, allowLog, setLog, reply, workflow>>

NoReply == [op |-> "none"]

\* no call of the executor yet
IdleWorkflow ==
    [pc |-> "idle", call |-> "", stages |-> <<>>, ran |-> 0, failed |-> FALSE,
     context |-> [campaign_theme |-> <<>>, content_roadmap |-> <<>>],
     stages_completed |-> <<>>, result |-> <<>>]

Counters == Kinds \X Hours

IdleProc ==
    [pc |-> "idle", inst |-> 1, query |-> "", filters |-> NoFilters, user_id |-> "",
     query_id |-> 0, all_results |-> <<>>, invoked |-> {}, refused |-> {},
     failed |-> {}, hit |-> FALSE, outcome |-> "none", error_at |-> "",
     response |-> <<>>, faults |-> {}, at |-> "", since |-> 0]

Init ==
    /\ now = 0
    /\ seconds = 0
    /\ limit \in 1..MaxLimit
    /\ rate_limits = [i \in Instances |-> <<>>]
    /\ queries = <<>>
    /\ results = <<>>
    /\ cache = <<>>
    /\ proc = [p \in AllProcs |-> IdleProc]
    /\ launches = [c \in Counters |-> 0]
    /\ allowLog = [i \in Instances |-> [c \in Counters |-> <<>>]]
    /\ setLog = <<>>
    /\ reply = NoReply
    /\ workflow = IdleWorkflow

(***************************************************************************)
(* search, lines 418-431: the cache lookup, and save_query on a miss.      *)
(***************************************************************************)
Called(p, i, query, filters, user_id) ==
    [IdleProc EXCEPT !.inst = i, !.query = query, !.filters = filters,
                     !.user_id = user_id]

\* lines 426-428: the cached response is returned
SearchHitSavingQuery(p, me, cached) ==
    /\ proc' = [proc EXCEPT ![p] = [me EXCEPT !.pc = "done", !.hit = TRUE,
                    !.outcome = "response", !.response = <<cached>>]]
    /\ queries' = Append(queries, QueryRow(queries, me.query, me.filters, me.user_id,
                                            Stamp(now, seconds)))

SearchHit(p, me, cached) ==
    /\ proc' = [proc EXCEPT ![p] = [me EXCEPT !.pc = "done", !.hit = TRUE,
                    !.outcome = "response", !.response = <<cached>>]]
    /\ UNCHANGED queries

\* line 431 with save_query raising: nothing is inserted, the exception leaves search
SaveQueryFailsSwallowed(p, me) ==
    /\ proc' = [proc EXCEPT ![p] = [me EXCEPT !.pc = "running",
                    !.faults = {"save_query"}]]
    /\ UNCHANGED queries

SaveQueryFails(p, me) ==
    /\ proc' = [proc EXCEPT ![p] = [me EXCEPT !.pc = "done", !.outcome = "error",
                    !.error_at = "save_query", !.faults = {"save_query"}]]
    /\ UNCHANGED queries

(***************************************************************************)
(* search, lines 437-453: a connector call behind the source selection of  *)
(* the filters and the rate limit of the service object.                   *)
(***************************************************************************)
\* the source blocks in the order of search
KindOrder == <<"academic", "web", "statistics">>

KindIndex(kind) == CHOOSE k \in 1..Len(KindOrder) : KindOrder[k] = kind

\* not filters.get('sources') or kind in filters.get('sources', [])
SelectedAlways(filters, kind) == TRUE

Selected(filters, kind) == filters.sources = <<>> \/ InSeq(kind, filters.sources)

\* One source block up to its await.  rl is self.rate_limits before it.
\* checked: _check_rate_limit was called, and allowed is what it returned;
\* launched: the connector is awaited.
SourceStageIgnoringRefusal(rl, filters, kind, lim, tnow) ==
    IF ~Selected(filters, kind)
    THEN [rl |-> rl, checked |-> FALSE, allowed |-> FALSE, launched |-> FALSE]
    ELSE [rl |-> RateLimitsAfter(rl, kind, lim, tnow), checked |-> TRUE,
          allowed |-> RateLimitAllows(rl, kind, lim, tnow), launched |-> TRUE]

SourceStage(rl, filters, kind, lim, tnow) ==
    IF ~Selected(filters, kind)
    THEN [rl |-> rl, checked |-> FALSE, allowed |-> FALSE, launched |-> FALSE]
    ELSE IF RateLimitAllows(rl, kind, lim, tnow)
         THEN [rl |-> RateLimitsAfter(rl, kind, lim, tnow), checked |-> TRUE,
               allowed |-> TRUE, launched |-> TRUE]
         ELSE [rl |-> RateLimitsAfter(rl, kind, lim, tnow), checked |-> TRUE,
               allowed |-> FALSE, launched |-> FALSE]

\* the history of one source block
LogStage(log, stage, kind, tnow) ==
    IF stage.checked
    THEN [log EXCEPT ![SourceKey(kind, tnow)] = Append(@, stage.allowed)]
    ELSE log

CountLaunch(counts, stage, kind, tnow) ==
    IF stage.launched
    THEN [counts EXCEPT ![SourceKey(kind, tnow)] = @ + 1]
    ELSE counts

\* The source blocks from the k-th on, as far as search runs without giving
\* up control: a block that is not selected or is refused awaits nothing, and
\* search goes on with the next one; the first connector awaited ends the run.
\* went is [rl, log, counts, refused, at]: the rate limits, the histories, the
\* kinds refused, and the position of the block whose connector is awaited
\* (0: none, search is through its blocks).
RECURSIVE Advance(_, _, _, _, _)
Advance(went, filters, k, lim, tnow) ==
    IF k > Len(KindOrder) THEN went
    ELSE LET kind == KindOrder[k]
             stage == SourceStage(went.rl, filters, kind, lim, tnow)
             on == [rl |-> stage.rl,
                    log |-> LogStage(went.log, stage, kind, tnow),
                    counts |-> CountLaunch(went.counts, stage, kind, tnow),
                    refused |-> went.refused \cup
                        (IF stage.checked /\ ~stage.allowed THEN {kind} ELSE {}),
                    at |-> IF stage.launched THEN k ELSE 0]
         IN  IF stage.launched THEN on ELSE Advance(on, filters, k + 1, lim, tnow)

\* the providers of a connector, in the order it asks them
ProvidersOf(kind) ==
    CASE kind = "academic" -> <<"arXiv", "PubMed">>
      [] kind = "web" -> <<"Wikipedia", "Google News">>
      [] kind = "statistics" -> <<"World Bank", "US Census Bureau">>

\* The list a connector returns.  since is the clock when the connector was
\* called, tnow the clock when its request was answered: the arXiv and the
\* Wikipedia library calls are made without an await, when the connector is
\* called; the aiohttp requests (PubMed, Google News, World Bank, Census) are
\* awaited and their results built when the answer is there.
ConnectorResults(kind, query, first, second, since, tnow) ==
    CASE kind = "academic" -> SearchAcademicSources(query, first, second, tnow)
      [] kind = "web" -> SearchWebSources(query, first, second, since, tnow)
      [] kind = "statistics" -> SearchStatisticalSources(query, first, second, tnow)

\* the providers of the connector whose call raised
FailedOf(kind, first, second) ==
    (IF first.failed THEN {ProvidersOf(kind)[1]} ELSE {})
    \cup (IF second.failed THEN {ProvidersOf(kind)[2]} ELSE {})

(***************************************************************************)
(* search, lines 455-483: filter, sort, save_results, the response, the    *)
(* cache write, and the except clause that logs and re-raises.             *)
(***************************************************************************)
\* 'results': filtered_results[:20]
ResponsePageUncut(filtered) == filtered

ResponsePage(filtered) == Take(filtered, ResponseCap)

\* lines 465-474
BuildResponse(query_id, query, filters, filtered, tnow) ==
    [query_id |-> query_id, query |-> query, filters |-> filters,
     total_results |-> Len(filtered), results |-> ResponsePage(filtered),
     search_time |-> tnow, sources_searched |-> <<"academic", "web", "statistics">>,
     cache_key |-> GenerateCacheKey(query, filters)]

\* an exception inside the try of search: logged and re-raised (lines 481-483)
SearchRaises(p, me, where, fault) ==
    /\ proc' = [proc EXCEPT ![p] = [me EXCEPT !.pc = "done", !.outcome = "error",
                    !.error_at = where, !.faults = @ \cup fault]]
    /\ UNCHANGED <<results, cache, setLog>>

\* save_results raised: its transaction is not committed, search re-raises
SaveResultsFails(p, me, response) ==
    SearchRaises(p, me, "save_results", {"save_results"})

\* set_cache raised inside its own try: logged there, nothing written
CacheWriteFailsRaising(p, me, response) ==
    /\ proc' = [proc EXCEPT ![p] = [me EXCEPT !.pc = "done", !.outcome = "error",
                    !.error_at = "set_cache", !.faults = @ \cup {"set_cache"}]]
    /\ UNCHANGED <<cache, setLog>>

CacheWriteFails(p, me, response) ==
    /\ proc' = [proc EXCEPT ![p] = [me EXCEPT !.pc = "done", !.outcome = "response",
                    !.response = <<response>>, !.faults = @ \cup {"set_cache"}]]
    /\ UNCHANGED <<cache, setLog>>

CacheWriteDoneUnlessDegraded(p, me, response) ==
    /\ proc' = [proc EXCEPT ![p] = [me EXCEPT !.pc = "done", !.outcome = "response",
                    !.response = <<response>>]]
    /\ IF me.refused = {} /\ me.failed = {}
       THEN /\ cache' = SetCache(cache, response.cache_key, response, CacheTTLHours, now)
            /\ setLog' = Append(setLog, [cache_key |-> response.cache_key,
                                data |-> response, at |-> now,
                                expires_in_hours |-> CacheTTLHours])
       ELSE UNCHANGED <<cache, setLog>>

CacheWriteDone(p, me, response) ==
    /\ proc' = [proc EXCEPT ![p] = [me EXCEPT !.pc = "done", !.outcome = "response",
                    !.response = <<response>>]]
    /\ cache' = SetCache(cache, response.cache_key, response, CacheTTLHours, now)
    /\ setLog' = Append(setLog, [cache_key |-> response.cache_key, data |-> response,
                                 at |-> now, expires_in_hours |-> CacheTTLHours])

\* the numbers of inserts one save_results call on the list may make before
\* the second of the clock passes: all of them, or, when the call straddles
\* a second, some, up to MaxTurn
Turns(list) ==
    {Len(list)}
    \cup (IF seconds < MaxSecond THEN 1..Min(Len(list) - 1, MaxTurn) ELSE {})

\* _filter_results returns a list of its own: one of its four branches is
\* taken.  When none is, filtered_results is the list all_results names.
FilterCopies(filters) ==
    \/ /\ filters.date_from # <<>> /\ filters.date_to # <<>>
       /\ Parses(filters.date_from[1]) /\ Parses(filters.date_to[1])
    \/ filters.sources # <<>>
    \/ filters.data_types # <<>>
    \/ filters.min_relevance # <<>>

\* lines 455-479 on the merged list; me carries the locals of the invocation.
\* The sort of line 459 is made in place: it orders all_results too when the
\* filter returned that list.  A local is bound once, as the element of a
\* singleton.  pace "slow": the second of the clock passes during the
\* inserts of save_results.
Finish(p, me, save_results_fails, set_cache_fails, pace) ==
    \E kept \in {FilterResults(me.all_results, me.filters)} :
    \E filtered \in {SortByRelevance(kept.results)} :
    \E turn \in IF pace = "slow" THEN Turns(filtered) \ {Len(filtered)}
                ELSE {Len(filtered)} :
    \E sorted \in {[me EXCEPT !.all_results =
                        IF FilterCopies(me.filters) THEN @ ELSE filtered]} :
    \E response \in {BuildResponse(me.query_id, me.query, me.filters, filtered, now)} :
        IF kept.raised
        THEN pace # "slow" /\ SearchRaises(p, me, "filter", {})
        ELSE IF save_results_fails
             THEN pace # "slow" /\ SaveResultsFails(p, sorted, response)
             ELSE /\ results' = results \o ResultRows(me.query_id, filtered,
                                                       Stamp(now, seconds), turn)
                  /\ IF set_cache_fails
                     THEN CacheWriteFails(p, sorted, response)
                     ELSE CacheWriteDone(p, sorted, response)

(***************************************************************************)
(* search from its k-th source block on, as far as it runs without giving  *)
(* up control: to the await of the next connector called, or, when no      *)
(* connector is left to call, through lines 455-483 to the return.         *)
(*                                                                         *)
(* The academic and the web connector begin with a synchronous library     *)
(* call made without a timeout: arxiv.Search(...).results() (lines 58-65)  *)
(* and the wikipedia calls (lines 140-145).  It is over when the connector *)
(* gives up control at its aiohttp request, which carries timeout=10.      *)
(* A step is stuck when the provider accepts the request of the library    *)
(* call and never answers: the call does not return, the invocation stays       *)
(* inside it, and so does the thread of its event loop.                    *)
(*                                                                         *)
(* pace says how the step goes: "steady", "stuck" (it ends inside a        *)
(* library call that never returns) or "slow" (it ends with the return of  *)
(* search, and the second of the clock passes during save_results).        *)
(***************************************************************************)
\* the connectors that begin with a synchronous library call
LibraryKinds == {"academic", "web"}

\* the event loop an invocation runs on: the server's for the searches of
\* the API (research_api.py:43), the one asyncio.run makes for the agent's
LoopOf(p) == IF p = AgentProc THEN "asyncio.run" ELSE "server"

\* the thread of the invocation's event loop is not inside a call that does
\* not return
LoopRuns(p) == \A o \in AllProcs : LoopOf(o) = LoopOf(p) => proc[o].pc # "blocked"

Proceed(p, me, k, save_results_fails, set_cache_fails, pace) ==
    \E went \in {Advance([rl |-> rate_limits[me.inst], log |-> allowLog[me.inst],
                          counts |-> launches, refused |-> {}, at |-> 0],
                         me.filters, k, limit, now)} :
    \E on \in {[me EXCEPT !.refused = @ \cup went.refused]} :
        /\ pace = "stuck" => (went.at # 0 /\ KindOrder[went.at] \in LibraryKinds)
        /\ pace = "slow" => went.at = 0
        /\ rate_limits' = [rate_limits EXCEPT ![me.inst] = went.rl]
        /\ allowLog' = [allowLog EXCEPT ![me.inst] = went.log]
        /\ launches' = went.counts
        /\ IF went.at # 0
           THEN /\ proc' = [proc EXCEPT ![p] =
                        [on EXCEPT !.pc = IF pace = "stuck" THEN "blocked" ELSE "awaiting",
                                   !.at = KindOrder[went.at],
                                   !.since = now, !.invoked = @ \cup {KindOrder[went.at]}]]
                /\ UNCHANGED <<results, cache, setLog>>
           ELSE Finish(p, on, save_results_fails, set_cache_fails, pace)

\* line 431: the query row is inserted and its id kept; search goes on to its
\* source blocks
SaveQueryDone(p, me, save_results_fails, set_cache_fails, pace) ==
    \E row \in {QueryRow(queries, me.query, me.filters, me.user_id,
                         Stamp(now, seconds))} :
        /\ queries' = Append(queries, row)
        /\ Proceed(p, [me EXCEPT !.query_id = row.id], 1,
                   save_results_fails, set_cache_fails, pace)

(***************************************************************************)
(* search is called: lines 418-431 and what follows them up to the first   *)
(* await.  fails says which storage calls of the invocation raise:         *)
(* save_query, save_results, set_cache.                                    *)
(***************************************************************************)
Search(p, i, query, filters, user_id, fails, pace) ==
    /\ LoopRuns(p)
    /\ \E me \in {Called(p, i, query, filters, user_id)} :
       \E cached \in {GetCachedData(cache, GenerateCacheKey(query, filters), now)} :
            IF cached # <<>>
            THEN /\ pace = "steady"
                 /\ SearchHit(p, me, cached[1])
                 /\ UNCHANGED <<rate_limits, results, cache, launches, allowLog, setLog>>
            ELSE IF fails[1]
                 THEN /\ pace = "steady"
                      /\ SaveQueryFails(p, me)
                      /\ UNCHANGED <<rate_limits, results, cache, launches, allowLog,
                                     setLog>>
                 ELSE SaveQueryDone(p, me, fails[2], fails[3], pace)

\* a search of the API is called.  Invocations start in the order of their
\* numbers, on the shared service object or on one of their own; faultSet
\* says whether the storage calls of the invocation may raise.
Start(p, querySet, filterSet, faultSet, pace) ==
    /\ proc[p].pc = "idle"
    /\ \A o \in Procs : o < p => proc[o].pc # "idle"
    /\ \E i \in {1, p}, query \in querySet, filters \in filterSet,
          user_id \in UserIds, save_query_fails \in faultSet,
          save_results_fails \in faultSet, set_cache_fails \in faultSet :
            Search(p, i, query, filters, user_id,
                   <<save_query_fails, save_results_fails, set_cache_fails>>, pace)
    /\ UNCHANGED <<now, seconds, limit, reply, workflow>>

Begin(p, querySet, filterSet, faultSet) ==
    Start(p, querySet, filterSet, faultSet, "steady")

(***************************************************************************)
(* The connector search awaits returns its list: all_results.extend(...),  *)
(* and search goes on with the next source block.  The awaits inside one   *)
(* connector are one step: between them the connector touches its own      *)
(* list only.                                                              *)
(***************************************************************************)
Continue(p, dom, faultSet, pace) ==
    /\ proc[p].pc = "awaiting"
    /\ LoopRuns(p)
    /\ \E kind \in {proc[p].at} :
       \E first \in dom[ProvidersOf(kind)[1]], second \in dom[ProvidersOf(kind)[2]],
          save_results_fails \in faultSet, set_cache_fails \in faultSet :
        \E found \in {ConnectorResults(kind, proc[p].query, first, second,
                                       proc[p].since, now)} :
        \E me \in {[proc[p] EXCEPT !.at = "", !.all_results = @ \o found,
                                   !.failed = @ \cup FailedOf(kind, first, second)]} :
            Proceed(p, me, KindIndex(kind) + 1, save_results_fails, set_cache_fails,
                    pace)
    /\ seconds' = IF pace = "slow" THEN seconds + 1 ELSE seconds
    /\ UNCHANGED <<now, limit, queries, reply, workflow>>

Resume(p, dom, faultSet) == Continue(p, dom, faultSet, "steady")

(***************************************************************************)
(* A step of search that ends inside a library call that never returns:    *)
(* search has no deadline around its connectors (lines 440, 446), so the   *)
(* invocation stays blocked, and with it every invocation of its event     *)
(* loop.                                                                   *)
(***************************************************************************)
Hang(p, querySet, filterSet, dom) ==
    \/ Start(p, querySet, filterSet, {FALSE}, "stuck")
    \/ Continue(p, dom, {FALSE}, "stuck")

(***************************************************************************)
(* The last step of a search whose save_results call straddles a second    *)
(* of the clock: the rows it inserts after the second has passed carry the *)
(* next created_at.  A search whose first step is its last saves no row.   *)
(***************************************************************************)
Straddle(p, dom) == Continue(p, dom, {FALSE}, "slow")

(***************************************************************************)
(* The clock, and _check_rate_limit called on its own.                     *)
(***************************************************************************)
Tick(hours, last) ==
    /\ now + hours <= last
    /\ now' = now + hours
    /\ seconds' = 0
    /\ UNCHANGED <<limit, rate_limits, queries, results, cache, proc, launches, allowLog,
                   setLog, reply,
                   workflow>>

RECURSIVE SumLen(_, _)
SumLen(log, S) ==
    IF S = {} THEN 0
    ELSE LET x == CHOOSE y \in S : TRUE
         IN  Len(log[x[1]][x[2]]) + SumLen(log, S \ {x})

CallsMade == SumLen(allowLog, Instances \X Counters)

\* self._check_rate_limit(kind) on service object i, with what it returned logged
CheckRateLimitCall(i, kind) ==
    /\ CallsMade < MaxCalls
    /\ rate_limits' = [rate_limits EXCEPT ![i] = RateLimitsAfter(@, kind, limit, now)]
    /\ allowLog' = [allowLog EXCEPT ![i][SourceKey(kind, now)] =
                        Append(@, RateLimitAllows(rate_limits[i], kind, limit, now))]
    /\ UNCHANGED <<now, seconds, limit, queries, results, cache, proc, launches,
                   setLog, reply,
                   workflow>>

(***************************************************************************)
(* The methods of ResearchDatabase called on their own.  A reply records   *)
(* the call, what it returned, and how much of the (append-only) table or  *)
(* log it saw.  A read changes nothing, so a behaviour makes its writes    *)
(* first and ends with one read.                                           *)
(***************************************************************************)
NextSecond(last) ==
    /\ reply = NoReply
    /\ seconds < last
    /\ seconds' = seconds + 1
    /\ UNCHANGED <<now, limit, rate_limits, queries, results, cache, proc, launches,
                   allowLog, setLog, reply,
                   workflow>>

QueryIds == {1, 2}

\* the result lists handed to save_results
StoredResult(t, sc) == MkResult(Item(t, sc), "arXiv", "academic", <<>>)

ResultLists ==
    {<<StoredResult(1, HighScore)>>,
     <<StoredResult(2, LowScore), StoredResult(3, HighScore)>>}

\* db.save_results(query_id, list), with or without the second of the clock
\* passing during its inserts
SaveResultsCall(query_id, list) ==
    /\ reply = NoReply
    /\ Len(results) + Len(list) <= MaxRows
    /\ \E turn \in Turns(list) :
        /\ results' = results \o ResultRows(query_id, list, Stamp(now, seconds), turn)
        /\ seconds' = IF turn < Len(list) THEN seconds + 1 ELSE seconds
    /\ UNCHANGED <<now, limit, rate_limits, queries, cache, proc, launches,
                   allowLog, setLog, reply,
                   workflow>>

\* save_results with the insert of the bad-th result raising (json.dumps of
\* its metadata, or a value sqlite3 cannot bind); bad = 0: no insert raises.
\* The inserts run in one transaction of `with sqlite3.connect(...) as conn`,
\* which rolls back when the block is left by an exception.
SaveResultsOutcomeKeepingPrefix(rows, query_id, list, bad, stamp, turn) ==
    IF bad = 0
    THEN [raised |-> FALSE, rows |-> rows \o ResultRows(query_id, list, stamp, turn)]
    ELSE [raised |-> TRUE,
          rows |-> rows \o ResultRows(query_id, Take(list, bad - 1), stamp, turn)]

SaveResultsOutcome(rows, query_id, list, bad, stamp, turn) ==
    IF bad = 0
    THEN [raised |-> FALSE, rows |-> rows \o ResultRows(query_id, list, stamp, turn)]
    ELSE [raised |-> TRUE, rows |-> rows]

\* db.save_results(query_id, list); reply keeps the latest call
SaveResultsAttempt(query_id, list, bad) ==
    /\ reply.op \in {"none", "save_results"}
    /\ bad <= Len(list)
    /\ Len(results) + Len(list) <= MaxRows
    /\ \E turn \in Turns(list) :
       \E out \in {SaveResultsOutcome(results, query_id, list, bad,
                                      Stamp(now, seconds), turn)} :
        /\ results' = out.rows
        /\ seconds' = IF turn < Len(list) THEN seconds + 1 ELSE seconds
        /\ reply' = [op |-> "save_results", query_id |-> query_id, list |-> list,
                     bad |-> bad, seen |-> Len(results), raised |-> out.raised]
    /\ UNCHANGED <<now, limit, rate_limits, queries, cache, proc, launches,
                   allowLog, setLog,
                   workflow>>

\* db.get_query_results(query_id, page, page_size)
GetQueryResultsCall(query_id, page, page_size) ==
    /\ reply = NoReply
    /\ reply' = [op |-> "get_query_results", query_id |-> query_id, page |-> page,
                 page_size |-> page_size, seen |-> Len(results),
                 value |-> GetQueryResults(results, query_id, page, page_size)]
    /\ UNCHANGED <<now, seconds, limit, rate_limits, queries, results, cache, proc,
                   launches, allowLog, setLog,
                   workflow>>

CacheKeys == {GenerateCacheKey(ScoredQuery, NoFilters), GenerateCacheKey(ScoredQuery, WebOnly)}

\* the payload of the n-th set_cache call: a response with query_id n
Payload(n) == BuildResponse(n, ScoredQuery, NoFilters, <<StoredResult(n, HighScore)>>, 0)

\* db.set_cache(cache_key, data, expires_in_hours)
SetCacheCall(cache_key, expires_in_hours) ==
    /\ reply = NoReply
    /\ Len(setLog) < MaxSets
    /\ cache' = SetCache(cache, cache_key, Payload(Len(setLog) + 1), expires_in_hours, now)
    /\ setLog' = Append(setLog, [cache_key |-> cache_key, data |-> Payload(Len(setLog) + 1),
                                 at |-> now, expires_in_hours |-> expires_in_hours])
    /\ UNCHANGED <<now, seconds, limit, rate_limits, queries, results, proc, launches,
                   allowLog, reply,
                   workflow>>

\* db.get_cached_data(cache_key)
GetCachedDataCall(cache_key) ==
    /\ reply = NoReply
    /\ reply' = [op |-> "get_cached_data", cache_key |-> cache_key, at |-> now,
                 seen |-> Len(setLog), value |-> GetCachedData(cache, cache_key, now)]
    /\ UNCHANGED <<now, seconds, limit, rate_limits, queries, results, cache, proc,
                   launches, allowLog, setLog,
                   workflow>>

\* the users whose queries are saved, and the user_id given to
\* get_recent_queries: None or one of them
HistoryUsers == {"u1", "u2"}

HistoryReaders == {<<>>} \cup {<<u>> : u \in HistoryUsers}

\* db.save_query(query_text, filters, user_id)
SaveQueryCall(query_text, filters, user_id) ==
    /\ reply = NoReply
    /\ Len(queries) < MaxQueries
    /\ queries' = Append(queries, QueryRow(queries, query_text, filters, user_id,
                                           Stamp(now, seconds)))
    /\ UNCHANGED <<now, seconds, limit, rate_limits, results, cache, proc, launches,
                   allowLog, setLog, reply,
                   workflow>>

\* db.get_recent_queries(user_id, limit)
GetRecentQueriesCall(user_id, lim) ==
    /\ reply = NoReply
    /\ reply' = [op |-> "get_recent_queries", user_id |-> user_id, limit |-> lim,
                 at |-> now, seen |-> Len(queries),
                 value |-> GetRecentQueries(queries, user_id, lim)]
    /\ UNCHANGED <<now, seconds, limit, rate_limits, queries, results, cache, proc,
                   launches, allowLog, setLog,
                   workflow>>

\* self._calculate_relevance_score_text(text, query)
ScoreCall(text, query) ==
    /\ reply = NoReply
    /\ reply' = [op |-> "score", text |-> text, query |-> query,
                 value |-> CalculateRelevanceScoreText(text, query)]
    /\ UNCHANGED <<now, seconds, limit, rate_limits, queries, results, cache, proc,
                   launches, allowLog, setLog,
                   workflow>>

\* the results and the filters _filter_results is given
FilterSamples ==
    {MkResult(Item(1, HighScore), "arXiv", "academic", IsoDate("aware", 0)),
     MkResult(Item(2, LowScore), "Wikipedia", "encyclopedia", IsoDate("naive", 1)),
     MkResult(Item(3, NearScore), "PubMed", "academic", IsoDate("naive", 3)),
     MkResult(Item(4, HighScore), "Google News", "news", IsoDate("rfc822", 0)),
     MkResult(Item(5, LowScore), "World Bank", "statistics", <<>>)}

FilterInputs == UNION {[1..n -> FilterSamples] : n \in 0..MaxFiltered}

DateRanges ==
    {[from |-> <<>>, to |-> <<>>],
     [from |-> IsoDate("naive", 1), to |-> IsoDate("naive", 2)],
     [from |-> IsoDate("naive", 1), to |-> <<>>],
     [from |-> IsoDate("soon", 0), to |-> IsoDate("naive", 2)]}

FilterSets ==
    {[sources |-> sources, data_types |-> data_types, date_from |-> range.from,
      date_to |-> range.to, min_relevance |-> min_relevance] :
        sources \in {<<>>, <<"web">>, <<"academic", "web">>},
        data_types \in {<<>>, <<"academic">>},
        range \in DateRanges,
        min_relevance \in {<<>>, MinRelevance(Threshold(56)).min_relevance,
                           MinRelevance(Threshold(90)).min_relevance, NotANumber}}

\* self._filter_results(results, filters)
FilterCall(list, filters) ==
    /\ reply = NoReply
    /\ reply' = [op |-> "filter", results |-> list, filters |-> filters,
                 value |-> FilterResults(list, filters)]
    /\ UNCHANGED <<now, seconds, limit, rate_limits, queries, results, cache, proc,
                   launches, allowLog, setLog,
                   workflow>>

(***************************************************************************)
(* AgentExecutor (backend/executor.py): run_workflow and run_agent.  A     *)
(* stage names its agent; stage.get("name", agent_id) is the agent id      *)
(* here.  The handlers that call the executor are synchronous (main.py:65, *)
(* 539) and run on a thread of the server's pool.                          *)
(*                                                                         *)
(* An agent is a class named by task.yaml.  "research" is the repository's *)
(* ResearchDataAgent (research_data/agent.py): its run makes a search on a *)
(* ResearchService of its own, under asyncio.run, and turns every          *)
(* exception into an output of status error (lines 46-54).  "custom" is    *)
(* any other agent class: its run raises, or returns an output that may    *)
(* hold a campaign_theme and a content_roadmap, as the output of           *)
(* ContentStrategistAgent does (content_strategist/agent.py).              *)
(***************************************************************************)
\* self.agent_specs: the agents of task.yaml
AgentSpecs == {"research", "custom"}

\* the agents whose class is ResearchDataAgent
ResearchAgents == {"research"}

\* the agents a stage may name, one of them in no agent_specs
StageAgents == AgentSpecs \cup {"ghost"}

WorkflowConfigs == UNION {[1..n -> StageAgents] : n \in 1..MaxStages}

\* user_id="research_agent" (research_data/agent.py:87)
AgentUser == "research_agent"

\* the filters of _perform_research (research_data/agent.py:78-82)
AgentFilters ==
    [sources |-> <<"academic", "web", "statistics">>,
     data_types |-> <<"academic", "encyclopedia", "news", "statistics">>,
     date_from |-> <<>>, date_to |-> <<>>,
     min_relevance |-> MinRelevance(Threshold(30)).min_relevance]

(***************************************************************************)
(* The context of a workflow, as far as the research agent reads it: the   *)
(* texts under campaign_theme and content_roadmap, <<>> when the key is    *)
(* not there (input_data.get(key, "") gives "" then).  The output of a     *)
(* stage holds a text under a key or does not hold the key;                *)
(* context.update(output) replaces the texts of the keys it holds.         *)
(* input_keys, which task.yaml may give for an agent, are taken to name    *)
(* what the agent reads (its get_input_keys), or not to be given.          *)
(***************************************************************************)
NoContext == [campaign_theme |-> <<>>, content_roadmap |-> <<>>]

\* 'Business strategy.', 'the trends' and 'ABC'
Themes ==
    {<<"B">> \o Tail(Business) \o Blanks(1) \o Strategy \o <<".">>,
     <<"t", "h", "e">> \o Blanks(1) \o Trends,
     <<"A", "B", "C">>}

\* 'with data'
Roadmaps == {<<"w", "i", "t", "h">> \o Blanks(1) \o Data}

\* what the run of an agent other than the research agent may return
CustomOutputs ==
    [campaign_theme : {<<>>} \cup {<<t>> : t \in Themes},
     content_roadmap : {<<>>} \cup {<<t>> : t \in Roadmaps}]

\* the output of the research agent holds neither key (lines 36-54)
ResearchOutput == [campaign_theme |-> <<>>, content_roadmap |-> <<>>]

\* agent_output.update_context(context)
UpdateContext(context, output) ==
    [key \in DOMAIN context |->
        IF output[key] # <<>> THEN output[key][1] ELSE context[key]]

\* stop_words (research_data/agent.py:62)
StopWords ==
    {<<"t", "h", "e">>, <<"a", "n", "d">>, <<"o", "r">>, <<"b", "u", "t">>,
     <<"i", "n">>, <<"o", "n">>, <<"a", "t">>, <<"t", "o">>, <<"f", "o", "r">>,
     <<"o", "f">>, <<"w", "i", "t", "h">>, <<"b", "y">>, <<"a">>, <<"a", "n">>}

\* the characters word.strip('.,!?;:"()[]') takes off both ends
Punctuation == {".", ",", "!", "?", ";", ":", "\"", "(", ")", "[", "]"}

RECURSIVE Strip(_)
Strip(word) ==
    IF word = <<>> THEN word
    ELSE IF word[1] \in Punctuation THEN Strip(Tail(word))
    ELSE IF word[Len(word)] \in Punctuation THEN Strip(SubSeq(word, 1, Len(word) - 1))
    ELSE word

\* ' '.join(words)
RECURSIVE Join(_)
Join(words) ==
    IF words = <<>> THEN <<>>
    ELSE IF Len(words) = 1 THEN words[1]
    ELSE words[1] \o Blanks(1) \o Join(Tail(words))

\* the first four words with more than three characters that are no stop words
KeyWordLen == 3
KeyWordCap == 4

\* _extract_research_query(content_roadmap, campaign_theme): the characters
\* of the query
ExtractResearchQuery(content_roadmap, campaign_theme) ==
    LET split == Split(Lower(campaign_theme \o Blanks(1) \o content_roadmap))
        words == [k \in 1..Len(split) |-> Strip(split[k])]
        key_words == Select(words, {k \in 1..Len(words) :
                                        Len(words[k]) > KeyWordLen /\ words[k] \notin StopWords})
    IN  IF key_words # <<>> THEN Join(Take(key_words, KeyWordCap))
        ELSE IF campaign_theme # <<>> THEN campaign_theme
        ELSE QueryChars(AgentQuery)

\* the query of the characters
QueryOf(text) == CHOOSE query \in AgentQueries : QueryChars(query) = text

\* what the providers hand to the agent's search: arXiv and Wikipedia
\* nothing, an item with the query in a long text, or one with the query's
\* first word alone
AgentTexts(query) ==
    {QueryChars(query) \o Blanks(ShortTextLen), Split(QueryChars(query))[1]}

AgentOutcomes(provider, query) ==
    IF provider \in {"arXiv", "Wikipedia"}
    THEN {Delivered(<<>>)}
         \cup {Delivered(<<ScoredItem(1, text, query)>>) : text \in AgentTexts(query)}
    ELSE {Delivered(<<>>)}

AgentDom(query) == [provider \in ProviderNames |-> AgentOutcomes(provider, query)]

\* WorkflowResult(success, context, error): stages_completed starts empty
WorkflowResult(success, error) ==
    [success |-> success, error |-> error, stages_completed |-> <<>>]

StageInfo(agent_id, status) ==
    [agent_id |-> agent_id, stage_name |-> agent_id, status |-> status]

\* what run_agent gives its caller: the agent's output, the '[ERROR] ...'
\* output of line 78, or the ValueError of _load_agent
AgentOutput(status) == [status |-> status]

\* executor.run_workflow(initial_input) is called
RunWorkflow(stages) ==
    /\ workflow.pc = "idle"
    /\ workflow' = [IdleWorkflow EXCEPT !.pc = "running", !.call = "run_workflow",
                                       !.stages = stages]
    /\ UNCHANGED <<now, seconds, limit, rate_limits, queries, results, cache, proc,
                   launches, allowLog, setLog, reply>>

\* lines 139-156: the stage's agent raised; the result is returned as built
StageFails(agent_id) ==
    LET done == Append(workflow.stages_completed, StageInfo(agent_id, "error")) IN
    workflow' = [workflow EXCEPT !.pc = "returned", !.ran = @ + 1, !.failed = TRUE,
                    !.stages_completed = done,
                    !.result = <<WorkflowResult(FALSE, "stage")>>]

\* lines 112-135: the stage's agent returned its output
StageCompletes(agent_id, output) ==
    workflow' = [workflow EXCEPT !.pc = "running", !.ran = @ + 1,
                    !.context = UpdateContext(@, output),
                    !.stages_completed = Append(@, StageInfo(agent_id, "completed"))]

\* lines 163-170: an exception outside the stage's own try
WorkflowFails ==
    workflow' = [workflow EXCEPT !.pc = "returned",
                    !.result = <<[WorkflowResult(FALSE, "workflow")
                                    EXCEPT !.stages_completed = workflow.stages_completed]>>]

(***************************************************************************)
(* ResearchDataAgent.run up to the first await of its search: the query    *)
(* made of the input's content_roadmap and campaign_theme (lines 22-26,    *)
(* 56-72), asyncio.run, a new ResearchService, search called (lines 29,    *)
(* 76-88).                                                                 *)
(***************************************************************************)
PerformResearch(input, faultSet) ==
    /\ proc[AgentProc].pc \in {"idle", "done"}
    /\ \E save_query_fails \in faultSet, save_results_fails \in faultSet,
          set_cache_fails \in faultSet :
       \E research_query \in {QueryOf(ExtractResearchQuery(input.content_roadmap,
                                                           input.campaign_theme))} :
            Search(AgentProc, AgentProc, research_query, AgentFilters, AgentUser,
                   <<save_query_fails, save_results_fails, set_cache_fails>>, "steady")
    /\ UNCHANGED <<now, seconds, limit, reply>>

\* the search of the agent is over: its ResearchService goes with it
ResearchOver ==
    /\ proc[AgentProc].pc = "done"
    /\ rate_limits' = [rate_limits EXCEPT ![AgentProc] = <<>>]
    /\ allowLog' = [allowLog EXCEPT ![AgentProc] = [c \in Counters |-> <<>>]]
    /\ UNCHANGED <<now, seconds, limit, queries, results, cache, proc, launches,
                   setLog, reply>>

\* lines 91-111 with the research agent: its run is called and starts its search
ResearchStageBegins(faultSet) ==
    /\ workflow.pc = "running"
    /\ workflow.ran < Len(workflow.stages)
    /\ workflow.stages[workflow.ran + 1] \in ResearchAgents
    /\ PerformResearch(workflow.context, faultSet)
    /\ workflow' = [workflow EXCEPT !.pc = "searching"]

\* a step of the search the agent awaits
ResearchGoesOn(faultSet) ==
    /\ workflow.pc = "searching"
    /\ Resume(AgentProc, AgentDom(proc[AgentProc].query), faultSet)

\* lines 30-54 of the agent, 112-135 of the executor: the search returned or
\* raised, the agent returns its output, the stage is completed
ResearchStageEnds ==
    /\ workflow.pc = "searching"
    /\ workflow.call = "run_workflow"
    /\ ResearchOver
    /\ StageCompletes(workflow.stages[workflow.ran + 1], ResearchOutput)

\* lines 91-156 with another agent: the next stage of the loop
RunStage ==
    /\ workflow.pc = "running"
    /\ workflow.ran < Len(workflow.stages)
    /\ LET agent_id == workflow.stages[workflow.ran + 1] IN
       /\ agent_id \notin ResearchAgents
       /\ IF agent_id \notin AgentSpecs
          THEN WorkflowFails
          ELSE \/ StageFails(agent_id)
               \/ \E output \in CustomOutputs : StageCompletes(agent_id, output)
    /\ UNCHANGED <<now, seconds, limit, rate_limits, queries, results, cache, proc,
                   launches, allowLog, setLog, reply>>

\* lines 158-161: the loop is over
WorkflowCompletes ==
    /\ workflow.pc = "running"
    /\ workflow.ran = Len(workflow.stages)
    /\ workflow' = [workflow EXCEPT !.pc = "returned",
                    !.result = <<[WorkflowResult(TRUE, "")
                                    EXCEPT !.stages_completed = workflow.stages_completed]>>]
    /\ UNCHANGED <<now, seconds, limit, rate_limits, queries, results, cache, proc,
                   launches, allowLog, setLog, reply>>

\* executor.run_agent(agent_id, input_data), lines 64-78, with another agent
\* than the research agent: _load_agent raises, or the agent returns or raises
RunAgent(agent_id) ==
    /\ workflow.pc = "idle"
    /\ agent_id \notin ResearchAgents
    /\ \E raises \in BOOLEAN :
        workflow' = [IdleWorkflow EXCEPT !.pc = "returned", !.call = "run_agent",
                        !.stages = <<agent_id>>,
                        !.failed = agent_id \notin AgentSpecs,
                        !.result = IF agent_id \notin AgentSpecs THEN <<>>
                                   ELSE <<AgentOutput(IF raises THEN "[ERROR]"
                                                      ELSE "completed")>>]
    /\ UNCHANGED <<now, seconds, limit, rate_limits, queries, results, cache, proc,
                   launches, allowLog, setLog, reply>>

\* executor.run_agent with the research agent: its run starts its search.
\* The input is AgentInput.from_text(request.text) (main.py:543): it holds
\* neither content_roadmap nor campaign_theme.
RunAgentBegins(agent_id, faultSet) ==
    /\ workflow.pc = "idle"
    /\ agent_id \in ResearchAgents
    /\ PerformResearch(NoContext, faultSet)
    /\ workflow' = [IdleWorkflow EXCEPT !.pc = "searching", !.call = "run_agent",
                                       !.stages = <<agent_id>>]

\* the agent returns its output, and run_agent returns it (lines 75-76)
RunAgentEnds ==
    /\ workflow.pc = "searching"
    /\ workflow.call = "run_agent"
    /\ ResearchOver
    /\ workflow' = [workflow EXCEPT !.pc = "returned",
                    !.result = <<AgentOutput(IF proc[AgentProc].outcome = "response"
                                             THEN "completed" ELSE "error")>>]

\* the clock of a behaviour that ends with a read stops at the read
TickBeforeRead(hours, last) == reply = NoReply /\ Tick(hours, last)

(***************************************************************************)
(* Specifications.                                                         *)
(*   Spec           several searches, concurrent, with the small provider  *)
(*                  domain and a storage that works; the clock moves by    *)
(*                  the cache TTL                                          *)
(*   SpecOne        one search with the wide provider domain and a storage *)
(*                  whose calls may raise                                  *)
(*   SpecRateLimit  _check_rate_limit alone; the clock moves by the hour   *)
(*   SpecBulk       several searches whose providers deliver full pages    *)
(*   SpecPages      save_results and get_query_results alone               *)
(*   SpecKeys       several searches whose filters list the same sources   *)
(*                  in different orders                                    *)
(*   SpecCache      set_cache and get_cached_data alone; the clock moves   *)
(*                  by the hour                                            *)
(*   SpecLive       the searches of Spec with library calls that may never *)
(*                  return, under weak fairness of every step the event    *)
(*                  loop can take                                          *)
(*   SpecQueries    save_query and get_recent_queries alone                *)
(*   SpecScore      _calculate_relevance_score_text alone                  *)
(*   SpecFilter     _filter_results alone                                  *)
(*   SpecInvalid    searches given filters that cannot be interpreted      *)
(*   SpecSave       save_results alone, with inserts that may raise        *)
(*   SpecWorkflow   one call of the AgentExecutor, run_workflow or         *)
(*                  run_agent, with the searches of its research agent     *)
(*   SpecDegraded   searches called one after the other, with a used-up    *)
(*                  quota or a failing provider; the clock moves by the    *)
(*                  hour                                                   *)
(*   SpecScored     searches over texts scored by the scorer               *)
(* A search takes a step when it is called and one each time a connector   *)
(* it awaits returns; the steps of concurrent searches interleave.         *)
(***************************************************************************)
NoFaults == {FALSE}

Next ==
    \/ \E p \in Procs : Begin(p, {ScoredQuery}, SmallFilters, NoFaults)
    \/ \E p \in Procs : Resume(p, SmallDom, NoFaults)
    \/ Tick(CacheTTLHours, MaxClock)

Spec == Init /\ [][Next]_vars

\* The searches with providers that may never answer.  The event loop runs
\* every search that is not waiting, as long as its thread is not inside a
\* call that does not return: a search that can start or go on does.
NextLive ==
    \/ \E p \in Procs : Begin(p, {ScoredQuery}, SmallFilters, NoFaults)
    \/ \E p \in Procs : Resume(p, SmallDom, NoFaults)
    \/ \E p \in Procs : Hang(p, {ScoredQuery}, SmallFilters, SmallDom)
    \/ Tick(CacheTTLHours, MaxClock)

SpecLive ==
    /\ Init /\ [][NextLive]_vars
    /\ \A p \in Procs : WF_vars(Begin(p, {ScoredQuery}, SmallFilters, NoFaults))
    /\ \A p \in Procs : WF_vars(Resume(p, SmallDom, NoFaults))

\* save_query and get_recent_queries called on the database
NextQueries ==
    \/ \E user_id \in HistoryUsers : SaveQueryCall(ScoredQuery, NoFilters, user_id)
    \/ \E user_id \in HistoryReaders, lim \in 1..MaxHistory :
            GetRecentQueriesCall(user_id, lim)
    \/ NextSecond(MaxSecond)

SpecQueries == Init /\ [][NextQueries]_vars

\* the scorer called on its own
NextScore == \E text \in ScorerTexts, query \in ScorerQueries : ScoreCall(text, query)

SpecScore == Init /\ [][NextScore]_vars

\* searches whose results carry the scores the scorer gives their texts
NextScored ==
    \/ \E p \in Procs :
            Begin(p, {ScoredQuery}, {NoFilters, MinRelevance(Threshold(56))}, NoFaults)
    \/ \E p \in Procs : Resume(p, ScoredDom, NoFaults)

SpecScored == Init /\ [][NextScored]_vars

\* _filter_results called on its own
NextFilter == \E list \in FilterInputs, filters \in FilterSets : FilterCall(list, filters)

SpecFilter == Init /\ [][NextFilter]_vars

\* searches given filters that cannot be interpreted
NextInvalid ==
    \/ \E p \in Procs : Begin(p, {ScoredQuery}, InvalidFilters, NoFaults)
    \/ \E p \in Procs : Resume(p, SmallDom, NoFaults)
    \/ Tick(CacheTTLHours, MaxClock)

SpecInvalid == Init /\ [][NextInvalid]_vars

\* search is called when no other search is under way
BeginAlone(p, querySet, filterSet, faultSet) ==
    /\ \A o \in Procs : proc[o].pc \in {"idle", "done"}
    /\ Begin(p, querySet, filterSet, faultSet)

\* searches on service objects whose web quota other calls may have used
\* up, with a provider that may fail; the clock moves by the hour
NextDegraded ==
    \/ \E p \in Procs : BeginAlone(p, {ScoredQuery}, {NoFilters}, NoFaults)
    \/ \E p \in Procs : Resume(p, DegradedDom, NoFaults)
    \/ CheckRateLimitCall(1, "web")
    \/ Tick(1, MaxBucket)

\* the smallest quota
InitDegraded == Init /\ limit = 1

SpecDegraded == InitDegraded /\ [][NextDegraded]_vars

\* save_results alone, with inserts that may raise
NextSave ==
    \E query_id \in QueryIds, list \in ResultLists, bad \in 0..MaxRows :
        SaveResultsAttempt(query_id, list, bad)

SpecSave == Init /\ [][NextSave]_vars

\* one call of the executor, run_workflow or run_agent
NextWorkflow ==
    \/ \E stages \in WorkflowConfigs : RunWorkflow(stages)
    \/ ResearchStageBegins(BOOLEAN)
    \/ ResearchGoesOn(BOOLEAN)
    \/ ResearchStageEnds
    \/ RunStage
    \/ WorkflowCompletes
    \/ \E agent_id \in StageAgents : RunAgent(agent_id)
    \/ \E agent_id \in StageAgents : RunAgentBegins(agent_id, BOOLEAN)
    \/ RunAgentEnds

SpecWorkflow == Init /\ [][NextWorkflow]_vars

NextOne ==
    \/ Begin(1, QueryTexts, WideFilters, BOOLEAN)
    \/ Resume(1, WideDom, BOOLEAN)

InitOne == Init /\ limit = MaxLimit

SpecOne == InitOne /\ [][NextOne]_vars

NextRateLimit ==
    \/ \E kind \in Kinds : CheckRateLimitCall(1, kind)
    \/ Tick(1, MaxBucket)

SpecRateLimit == Init /\ [][NextRateLimit]_vars

\* the processes whose save_results call may straddle a second in SpecBulk
SlowProcs == {1}

NextBulk ==
    \/ \E p \in Procs : Begin(p, {ScoredQuery}, SmallFilters, NoFaults)
    \/ \E p \in Procs : Resume(p, BulkDom, NoFaults)
    \/ \E p \in SlowProcs : Straddle(p, BulkDom)

SpecBulk == Init /\ [][NextBulk]_vars

NextPages ==
    \/ \E query_id \in QueryIds, list \in ResultLists : SaveResultsCall(query_id, list)
    \/ \E query_id \in QueryIds, page \in 1..MaxPage, page_size \in 1..MaxPageSize :
            GetQueryResultsCall(query_id, page, page_size)
    \/ NextSecond(MaxSecond)

SpecPages == Init /\ [][NextPages]_vars

NextKeys ==
    \/ \E p \in Procs : Begin(p, {ScoredQuery}, OrderFilters, NoFaults)
    \/ \E p \in Procs : Resume(p, SmallDom, NoFaults)

SpecKeys == Init /\ [][NextKeys]_vars

NextCache ==
    \/ \E cache_key \in CacheKeys, expires_in_hours \in 1..MaxTTL :
            SetCacheCall(cache_key, expires_in_hours)
    \/ \E cache_key \in CacheKeys : GetCachedDataCall(cache_key)
    \/ TickBeforeRead(1, MaxCacheClock)

SpecCache == Init /\ [][NextCache]_vars

(***************************************************************************)
(* Properties.                                                             *)
(***************************************************************************)
Done(p) == proc[p].pc = "done"
Responded(p) == Done(p) /\ proc[p].outcome = "response"

\* an entry under the key whose expiry lies after tnow
HasUnexpiredEntry(c, cache_key, tnow) ==
    \E k \in 1..Len(c) : c[k].cache_key = cache_key /\ c[k].expires_at > tnow

\* the payloads of the entries under the key
EntriesOf(c, cache_key) == {c[k].data : k \in CacheRowsOf(c, cache_key)}

\* the step takes invocation p from the call to some later position
Starts(p) == proc[p].pc = "idle" /\ proc'[p].pc # "idle"

\* C1: a search that finds an unexpired cache entry under its key returns the
\* data of that entry in the same step, and the step changes nothing else: no
\* connector is invoked, no rate-limit counter moves, no query row and no
\* result row is added, and the cache stays as it is.
C1_CacheHitChangesNothing ==
    [][\A p \in Procs :
        LET key == GenerateCacheKey(proc'[p].query, proc'[p].filters) IN
        (Starts(p) /\ HasUnexpiredEntry(cache, key, now))
        => /\ proc'[p].pc = "done"
           /\ proc'[p].outcome = "response"
           /\ \E d \in EntriesOf(cache, key) : proc'[p].response = <<d>>
           /\ proc'[p].invoked = {}
           /\ UNCHANGED <<rate_limits, launches, allowLog, queries, results, cache,
                          setLog>>]_vars

\* a second search was served from the entry the first one wrote
C1_Witness ==
    \E p \in Procs : Responded(p) /\ proc[p].hit /\ Len(queries) = 1 /\ results # <<>>

\* the results of all_results that come from the given providers
FromProviders(all, providers) ==
    Select(all, {k \in 1..Len(all) : all[k].source \in providers})

\* C2: in a search in which providers failed, the failed providers contribute
\* no result, no exception of a connector reaches the caller (a search ends in
\* an error only when the storage raised), and the response holds exactly the
\* results of the providers that did not fail.
C2_FaultIsolation ==
    \A p \in Procs :
        (Done(p) /\ proc[p].failed # {})
        => /\ FromProviders(proc[p].all_results, proc[p].failed) = <<>>
           /\ proc[p].outcome = "error" => proc[p].faults # {}
           /\ proc[p].outcome = "response" =>
                proc[p].response[1].total_results =
                    Len(FilterResults(FromProviders(proc[p].all_results,
                            ProviderNames \ proc[p].failed), proc[p].filters).results)

\* C3: a search whose save_results raised still returns the response, and a
\* search fails only when save_query raised.
C3_SaveResultsFailureReturnsResponse ==
    \A p \in Procs :
        /\ (Done(p) /\ "save_results" \in proc[p].faults) => proc[p].outcome = "response"
        /\ (Done(p) /\ proc[p].outcome = "error") => proc[p].error_at = "save_query"

\* C4: when save_query raises on a cache miss, the search ends in that step
\* with the error, and neither that step nor any later one invokes a
\* connector for it, moves a rate-limit counter, adds a row or writes the
\* cache on its behalf.
C4_SaveQueryFailureAborts ==
    [][\A p \in Procs :
        /\ (Starts(p) /\ "save_query" \in proc'[p].faults)
           => /\ proc'[p].pc = "done"
              /\ proc'[p].outcome = "error"
              /\ proc'[p].error_at = "save_query"
              /\ proc'[p].invoked = {} /\ proc'[p].refused = {}
              /\ proc'[p].response = <<>>
              /\ UNCHANGED <<rate_limits, launches, allowLog, queries, results, cache,
                             setLog>>
        /\ "save_query" \in proc[p].faults => proc'[p] = proc[p]]_vars

C4_Witness ==
    \E p \in Procs : Done(p) /\ proc[p].faults = {"save_query"} /\ queries = <<>>

\* the step in which invocation p returns after a cache miss
Returns(p) == proc[p].pc \in {"idle", "awaiting"} /\ proc'[p].pc = "done" /\ ~proc'[p].hit

\* C5: when set_cache raises, the search returns the response it returns when
\* the write succeeds (the filtered and sorted list cut to a page, with the
\* counts and the key), and the cache is left as it was.
C5_CacheWriteFailureSwallowed ==
    [][\A p \in Procs :
        (Returns(p) /\ "set_cache" \in proc'[p].faults)
        => LET me == proc'[p]
               filtered == SortByRelevance(FilterResults(me.all_results, me.filters).results)
           IN  /\ me.outcome = "response"
               /\ me.response = <<BuildResponse(me.query_id, me.query, me.filters,
                                                filtered, now)>>
               /\ cache' = cache
               /\ EntriesOf(cache', GenerateCacheKey(me.query, me.filters)) = {}]_vars

C5_Witness ==
    \E p \in Procs :
        /\ Responded(p) /\ proc[p].faults = {"set_cache"}
        /\ proc[p].response[1].total_results > 0
        /\ cache = <<>>

\* C6: on one service object, for every source and hour bucket, the k-th call
\* of _check_rate_limit in the bucket returns true exactly when k <= limit;
\* the counter is the number of calls that returned true, so it never exceeds
\* the limit and a refused call leaves it alone; a bucket no call was made in
\* holds nothing, whatever the earlier buckets hold.
C6_RateLimitBoundary ==
    \A i \in Instances : \A c \in Counters :
        LET log == allowLog[i][c] IN
        /\ \A k \in 1..Len(log) : log[k] = (k <= limit)
        /\ RateCount(rate_limits[i], c) = Min(Len(log), limit)
        /\ RateCount(rate_limits[i], c) <= limit
        /\ log = <<>> => c \notin DOMAIN rate_limits[i]

\* a source was refused in one bucket and allowed again in the next
C6_Witness ==
    \E kind \in Kinds : \E h \in Hours :
        /\ h + 1 \in Hours
        /\ Len(allowLog[1][<<kind, h>>]) > limit
        /\ ~allowLog[1][<<kind, h>>][limit + 1]
        /\ allowLog[1][<<kind, h + 1>>] # <<>>
        /\ allowLog[1][<<kind, h + 1>>][1]

\* C7: over all searches and all service objects, the connector launches for
\* one source within one hour bucket never exceed the limit.
C7_ProcessWideQuota ==
    \A c \in Counters : launches[c] <= limit

\* the source kind a provider belongs to
KindOfProvider(provider) ==
    CASE provider \in {"arXiv", "PubMed"} -> "academic"
      [] provider \in {"Wikipedia", "Google News"} -> "web"
      [] provider \in {"World Bank", "US Census Bureau"} -> "statistics"

\* C8: when the rate limiter refused a source in a cache-miss search, the
\* connector of that source is not invoked and none of its results is merged,
\* the search ends with a response and never with an error, and the response
\* counts the filtered results of the remaining sources.
C8_RefusedSourceSkipped ==
    \A p \in Procs :
        (Done(p) /\ proc[p].refused # {})
        => /\ proc[p].invoked \cap proc[p].refused = {}
           /\ \A k \in 1..Len(proc[p].all_results) :
                KindOfProvider(proc[p].all_results[k].source) \in proc[p].invoked
           /\ proc[p].outcome = "response"
           /\ proc[p].response[1].total_results =
                Len(FilterResults(proc[p].all_results, proc[p].filters).results)

\* a search with one source refused and results from another one
C8_Witness ==
    \E p \in Procs :
        /\ Responded(p) /\ proc[p].refused # {} /\ proc[p].invoked # {}
        /\ proc[p].response[1].total_results > 0

\* the providers' names in case-sensitive lexicographic order
SourceNameOrder ==
    <<"Google News", "PubMed", "US Census Bureau", "Wikipedia", "World Bank", "arXiv">>

SourceRank(source) == CHOOSE k \in 1..Len(SourceNameOrder) : SourceNameOrder[k] = source

\* a may stand before b: higher score first, then source name, then title
InClaimedOrder(a, b) ==
    \/ FloatLess(b.relevance_score, a.relevance_score)
    \/ /\ a.relevance_score = b.relevance_score
       /\ \/ SourceRank(a.source) < SourceRank(b.source)
          \/ a.source = b.source /\ a.title <= b.title

\* C9: the results of every response are sorted by relevance score
\* descending, ties by source name and then by title.
C9_SortedWithTieBreak ==
    \A p \in Procs :
        Responded(p) =>
            LET rs == proc[p].response[1].results IN
            \A k \in 1..(Len(rs) - 1) : InClaimedOrder(rs[k], rs[k + 1])

\* the results persisted under a query id, in row order
RowsOf(query_id) ==
    LET kept == Select(results, {k \in 1..Len(results) : results[k].query_id = query_id})
    IN  [k \in 1..Len(kept) |-> kept[k].result]

\* C10: in a response built on a cache miss, with n the length of the full
\* filtered and sorted list (the list persisted under the query id), results
\* is the first min(20, n) entries of that list and total_results is n, so
\* total_results >= len(results) and len(results) <= 20.
C10_ResponsePage ==
    \A p \in Procs :
        (Responded(p) /\ ~proc[p].hit) =>
            LET r == proc[p].response[1]
                full == RowsOf(r.query_id)
                n == Len(full)
            IN  /\ full = SortByRelevance(FilterResults(proc[p].all_results,
                                                        proc[p].filters).results)
                /\ r.results = SubSeq(full, 1, IF n < ResponseCap THEN n ELSE ResponseCap)
                /\ r.total_results = n
                /\ r.total_results >= Len(r.results)
                /\ Len(r.results) <= ResponseCap

\* a response whose list is longer than a page
C10_Witness ==
    \E p \in Procs :
        /\ Responded(p) /\ ~proc[p].hit
        /\ proc[p].response[1].total_results > ResponseCap
        /\ Len(proc[p].response[1].results) = ResponseCap

\* the invocation returned a response it built itself
Built(p) == Responded(p) /\ ~proc[p].hit

\* how often x occurs in the sequence
Occurrences(x, sq) == Cardinality({k \in 1..Len(sq) : sq[k] = x})

\* the sequences hold the same elements, each as often
SameElements(a, b) ==
    /\ Len(a) = Len(b)
    /\ \A k \in 1..Len(a) : Occurrences(a[k], a) = Occurrences(a[k], b)

\* the rows persisted under the query id were inserted within one second
OneStamp(query_id) ==
    \A i, j \in 1..Len(results) :
        (results[i].query_id = query_id /\ results[j].query_id = query_id)
            => results[i].created_at = results[j].created_at

\* C11: after a cache-miss search returned a response with query id q, the
\* rows persisted under q are the entire filtered list: get_query_results(q)
\* counts total_results rows and, asked for all of them on one page, returns
\* every result of the filtered list, each as often as the list holds it,
\* and in the order of the sorted list when the rows were inserted within
\* one second; under an id no such search got, it finds nothing.
C11_AllResultsPersisted ==
    /\ \A p \in Procs :
            Built(p) =>
                LET r == proc[p].response[1]
                    size == IF r.total_results = 0 THEN 1 ELSE r.total_results
                    got == GetQueryResults(results, r.query_id, 1, size)
                IN  /\ got.total_count = r.total_results
                    /\ SameElements([k \in 1..Len(got.results) |-> got.results[k].result],
                                    FilterResults(proc[p].all_results,
                                                  proc[p].filters).results)
                    /\ OneStamp(r.query_id) =>
                            [k \in 1..Len(got.results) |-> got.results[k].result]
                              = SortByRelevance(FilterResults(proc[p].all_results,
                                                              proc[p].filters).results)
    /\ \A q \in 0..(Len(queries) + 1) :
            (\A p \in Procs : Built(p) => proc[p].response[1].query_id # q)
            => LET got == GetQueryResults(results, q, 1, ResponseCap)
               IN  got.total_count = 0 /\ got.results = <<>>

\* two searches built responses, one of them with more results than a page
\* and saved over the passing of a second, the other saved within a second
C11_Witness ==
    \E p, o \in Procs :
        /\ Built(p) /\ Built(o)
        /\ proc[p].response[1].query_id # proc[o].response[1].query_id
        /\ proc[p].response[1].total_results > ResponseCap
        /\ ~OneStamp(proc[p].response[1].query_id)
        /\ proc[o].response[1].total_results > 0
        /\ OneStamp(proc[o].response[1].query_id)

\* C12: get_query_results(query_id, page, page_size), pages counted from 1,
\* returns the entries at the positions (page-1)*page_size+1 ..
\* min(page*page_size, total_count) of the query's results in relevance
\* order: that order lists every persisted result of the query exactly once
\* with scores descending, so the pages are disjoint and cover it; and
\* total_pages is the least number of pages that hold total_count entries.
C12_Pagination ==
    reply.op = "get_query_results" =>
        LET table == SubSeq(results, 1, reply.seen)
            mine == QueryResultRows(table, reply.query_id)
            n == Len(mine)
            whole == GetQueryResults(table, reply.query_id, 1,
                                     IF n = 0 THEN 1 ELSE n).results
            first == (reply.page - 1) * reply.page_size + 1
            last == IF reply.page * reply.page_size < n
                    THEN reply.page * reply.page_size ELSE n
        IN  /\ reply.value.total_count = n
            /\ SameElements([k \in 1..Len(whole) |-> whole[k].result],
                            [k \in 1..n |-> mine[k].result])
            /\ \A k \in 1..(Len(whole) - 1) :
                    FloatGeq(whole[k].result.relevance_score,
                             whole[k + 1].result.relevance_score)
            /\ reply.value.results = [k \in 1..(IF last < first THEN 0 ELSE last - first + 1)
                                        |-> whole[first + k - 1]]
            /\ reply.value.total_pages * reply.page_size >= n
            /\ (reply.value.total_pages - 1) * reply.page_size < n
            /\ reply.value.total_pages >= 0

\* the second, shorter page of a query with rows of other queries around
C12_Witness ==
    /\ reply.op = "get_query_results"
    /\ reply.page = 2 /\ reply.value.total_pages = 2
    /\ Len(reply.value.results) = 1 /\ reply.page_size = 2
    /\ \E k \in 1..reply.seen : results[k].query_id # reply.query_id

\* the positions in the log of the set_cache calls for the key
SetsOf(log, cache_key) == {k \in 1..Len(log) : log[k].cache_key = cache_key}

\* the latest of them
LastSet(log, cache_key) ==
    CHOOSE k \in SetsOf(log, cache_key) : \A o \in SetsOf(log, cache_key) : o <= k

\* C13: get_cached_data(k) returns the data of the latest set_cache(k, r, ttl)
\* when it is called before that call's time plus ttl hours, and None (never
\* an error) when the clock has reached that time or k was never set.
C13_CacheRoundTrip ==
    reply.op = "get_cached_data" =>
        LET log == SubSeq(setLog, 1, reply.seen) IN
        IF SetsOf(log, reply.cache_key) = {}
        THEN reply.value = <<>>
        ELSE LET set == log[LastSet(log, reply.cache_key)] IN
             IF reply.at < set.at + set.expires_in_hours
             THEN reply.value = <<set.data>>
             ELSE reply.value = <<>>

\* a key was set and read when its entry had expired
C13_Witness ==
    /\ reply.op = "get_cached_data"
    /\ reply.value = <<>>
    /\ \E k \in 1..Len(setLog) :
            setLog[k].cache_key = reply.cache_key
            /\ reply.at >= setLog[k].at + setLog[k].expires_in_hours

\* C14: after any sequence of set_cache calls the table holds at most one
\* row per key, and the row of a key holds the data and the expiry of the
\* latest call for the key, whatever the row it replaced held.
C14_LastWriteWins ==
    \A cache_key \in CacheKeys :
        /\ Cardinality(CacheRowsOf(cache, cache_key)) <= 1
        /\ SetsOf(setLog, cache_key) # {} =>
              LET set == setLog[LastSet(setLog, cache_key)] IN
              \E k \in CacheRowsOf(cache, cache_key) :
                  /\ cache[k].data = set.data
                  /\ cache[k].expires_at = set.at + set.expires_in_hours
        /\ SetsOf(setLog, cache_key) = {} => CacheRowsOf(cache, cache_key) = {}

\* an entry that had not expired was replaced by one that expires earlier
C14_Witness ==
    \E cache_key \in CacheKeys : \E i, j \in SetsOf(setLog, cache_key) :
        /\ i < j /\ j = LastSet(setLog, cache_key)
        /\ setLog[j].at < setLog[i].at + setLog[i].expires_in_hours
        /\ setLog[j].at + setLog[j].expires_in_hours
             < setLog[i].at + setLog[i].expires_in_hours
        /\ \E k \in CacheRowsOf(cache, cache_key) : cache[k].data = setLog[j].data

\* the elements of a list
ElementsOf(sq) == {sq[k] : k \in 1..Len(sq)}

\* the filters have the same fields and values, the lists sources and
\* data_types read as sets
SameFilters(f, g) ==
    /\ ElementsOf(f.sources) = ElementsOf(g.sources)
    /\ ElementsOf(f.data_types) = ElementsOf(g.data_types)
    /\ f.date_from = g.date_from /\ f.date_to = g.date_to
    /\ f.min_relevance = g.min_relevance

\* C15: a search that starts while the cache holds the unexpired response of
\* a search with the same query and semantically identical filters (the same
\* sources and data types in any order) is a cache hit.
C15_CacheKeyOrderIndependent ==
    [][\A p \in Procs :
        (/\ Starts(p)
         /\ \E k \in 1..Len(cache) :
                /\ cache[k].expires_at > now
                /\ cache[k].data.query = proc'[p].query
                /\ SameFilters(cache[k].data.filters, proc'[p].filters))
        => proc'[p].hit]_vars

\* filters.sources is empty or absent, or names the kind
Wanted(filters, kind) == filters.sources = <<>> \/ kind \in ElementsOf(filters.sources)

\* the step is one of invocation p
Steps(p) == proc'[p] # proc[p]

\* C16: in every step of a search, a kind that filters.sources neither leaves
\* open nor names has its connector not invoked and its rate-limit counter
\* not consulted: the counter, the log of the limiter's answers and the
\* launches of the kind stay as they were, and no result of the kind is
\* merged.
C16_SourceSelection ==
    [][\A p \in Procs : \A kind \in Kinds :
        (Steps(p) /\ ~Wanted(proc'[p].filters, kind))
        => LET i == proc'[p].inst
               c == SourceKey(kind, now)
           IN  /\ kind \notin proc'[p].invoked
               /\ kind \notin proc'[p].refused
               /\ \A k \in 1..Len(proc'[p].all_results) :
                     KindOfProvider(proc'[p].all_results[k].source) # kind
               /\ RateCount(rate_limits'[i], c) = RateCount(rate_limits[i], c)
               /\ (c \in DOMAIN rate_limits'[i]) = (c \in DOMAIN rate_limits[i])
               /\ allowLog'[i][c] = allowLog[i][c]
               /\ launches'[c] = launches[c]]_vars

\* a search for web sources only invoked the web connector and nothing else
C16_Witness ==
    \E p \in Procs :
        /\ Built(p) /\ proc[p].filters.sources = <<"web">>
        /\ proc[p].invoked = {"web"}
        /\ proc[p].response[1].total_results > 0
        /\ \A h \in Hours : launches[<<"academic", h>>] = 0

\* C17: a search always eventually returns: every invocation that went past
\* the cache lookup ends with a response or an exception, whatever its
\* connectors do.
C17_SearchReturns ==
    \A p \in Procs : (proc[p].pc \in {"awaiting", "blocked"}) ~> (proc[p].pc = "done")

\* the rows get_recent_queries had to choose from
HistoryPool ==
    {k \in 1..Len(queries) :
        reply.user_id = <<>> \/ queries[k].user_id = reply.user_id[1]}

\* C19: get_recent_queries returns at most limit queries, the newest first;
\* with a user_id every one of them is a query of that user, and with none
\* the queries of all users are in reach: the answer is as long as limit
\* and the number of rows to choose from allow.
C19_RecentQueries ==
    reply.op = "get_recent_queries" =>
        LET v == reply.value IN
        /\ Len(v) <= reply.limit
        /\ Len(v) = Min(reply.limit, Cardinality(HistoryPool))
        /\ \A k \in 1..Len(v) : v[k].id \in HistoryPool
        /\ \A j, k \in 1..Len(v) : j < k => v[j].id > v[k].id

\* the invocations that started
Started == {p \in Procs : proc[p].pc # "idle"}

ValidResponse(p) ==
    LET r == proc[p].response[1] IN
    /\ r.query = proc[p].query /\ r.filters = proc[p].filters
    /\ r.cache_key = GenerateCacheKey(proc[p].query, proc[p].filters)
    /\ r.total_results >= Len(r.results)
    /\ r.results = SubSeq(RowsOf(r.query_id), 1, Len(r.results))
    /\ r.total_results = Len(RowsOf(r.query_id))

\* C20: whatever the interleaving of searches that miss on the same key,
\* each of them ends with a well-formed response of its own, and the cache
\* holds at most one entry for the key, exactly one once one of them has
\* returned, equal to the whole response of one of them.
C20_ConcurrentMisses ==
    /\ \A p \in Procs : Done(p) => Responded(p)
    /\ \A p \in Procs : Built(p) => ValidResponse(p)
    /\ \A p \in Procs :
            Built(p) =>
                LET key == GenerateCacheKey(proc[p].query, proc[p].filters) IN
                /\ Cardinality(CacheRowsOf(cache, key)) = 1
                /\ \A k \in CacheRowsOf(cache, key) :
                     \E o \in Procs :
                        /\ Built(o)
                        /\ GenerateCacheKey(proc[o].query, proc[o].filters) = key
                        /\ cache[k].data = proc[o].response[1]
    /\ \A k \in 1..Len(cache) : Cardinality(CacheRowsOf(cache, cache[k].cache_key)) = 1

\* two searches missed on the same key and built different responses
C20_Witness ==
    \E p, o \in Procs :
        /\ p # o /\ Built(p) /\ Built(o)
        /\ proc[p].response[1].cache_key = proc[o].response[1].cache_key
        /\ proc[p].response[1] # proc[o].response[1]
        /\ now = 0
        /\ \E k \in 1..Len(cache) : cache[k].data = proc[o].response[1]

\* a relevance score within [0, 1]
InUnit(score) == FloatGeq(score, Zero) /\ FloatGeq(One, score)

\* C21: every result persisted, returned in a response or held in the cache
\* carries a relevance score within [0, 1], the score its connector computed
\* with the scorer, whatever the number of proximity bonuses.
C21_ScoresInUnit ==
    /\ \A k \in 1..Len(results) : InUnit(results[k].result.relevance_score)
    /\ \A p \in Procs : Responded(p) =>
            \A k \in 1..Len(proc[p].response[1].results) :
                InUnit(proc[p].response[1].results[k].relevance_score)
    /\ \A c \in 1..Len(cache) : \A k \in 1..Len(cache[c].data.results) :
            InUnit(cache[c].data.results[k].relevance_score)

\* a text with the phrase, the three terms and three close pairs, whose sum
\* 1.1 was clipped to 1.0, is persisted and returned with a later result
C21_Witness ==
    \E p \in Procs :
        /\ Built(p)
        /\ Len(proc[p].response[1].results) = 2
        /\ proc[p].response[1].results[1].relevance_score = One
        /\ \E k \in 1..Len(results) : results[k].result.relevance_score = One

\* the algorithm of the design: the query terms are a set, a term repeated in
\* the query is one term
ReferenceTerms(query) ==
    {w \in {Split(Lower(query))[k] : k \in 1..Len(Split(Lower(query)))} : Len(w) > 2}

ReferencePairs(text, terms) ==
    {pair \in SUBSET terms :
        /\ Cardinality(pair) = 2
        /\ \A w \in pair : Contains(Lower(text), w)
        /\ \A w, u \in pair : Find(Lower(text), w) - Find(Lower(text), u) < 50}

\* the reference score, summed in floats in the order of the design: the
\* phrase, the share of the terms, one bonus per pair, the penalty, the clip
ReferenceScore(text, query) ==
    LET terms == ReferenceTerms(query)
        n == Cardinality(terms)
        matched == Cardinality({w \in terms : Contains(Lower(text), w)})
        phrase == IF Contains(Lower(text), Lower(query)) THEN FloatOfRatio(4, 10) ELSE Zero
        share == FloatMul(FloatOfRatio(4, 10), FloatOfRatio(matched, n))
        sum == AddTimes(FloatAdd(phrase, share), FloatOfRatio(1, 10),
                        Cardinality(ReferencePairs(text, terms)))
        scaled == IF Len(text) < 100 THEN FloatMul(sum, FloatOfRatio(8, 10)) ELSE sum
    IN  IF text = <<>> \/ query = <<>> THEN Zero
        ELSE IF n = 0 THEN FloatOfRatio(1, 2)
        ELSE FloatMin(scaled, FloatOfRatio(1, 1))

\* C22: the score of every text and query is the score of the reference
\* algorithm, in which a term repeated in the query counts once and forms no
\* pair with itself.
C22_ScoreIsReference ==
    reply.op = "score" => reply.value = ReferenceScore(reply.text, reply.query)

\* the filters' values can all be interpreted: min_relevance is a number
FilterCallOk == reply.op = "filter" /\ reply.filters.min_relevance # NotANumber

\* the groups of providers of the design
ProviderGroup(kind) ==
    CASE kind = "academic" -> {"arXiv", "PubMed"}
      [] kind = "web" -> {"Wikipedia", "Google News"}
      [] kind = "statistics" -> {"World Bank", "US Census Bureau"}

\* the result satisfies the source, the data-type and the relevance constraint
\* of the filters, each when it is not empty, and passes the date filter
Satisfies(result, filters) ==
    /\ filters.sources # <<>> =>
            \E k \in 1..Len(filters.sources) : result.source \in ProviderGroup(filters.sources[k])
    /\ filters.data_types # <<>> =>
            \E k \in 1..Len(filters.data_types) : result.data_type = filters.data_types[k]
    /\ filters.min_relevance # <<>> =>
            ~FloatLess(result.relevance_score, filters.min_relevance[1].v)
    /\ DateFilter(<<result>>, filters) = <<result>>

\* C23: _filter_results is conjunctive and order-preserving: on filters whose
\* values can be interpreted its output is the subsequence of the input of
\* the results that satisfy every constraint that is not empty (a score
\* equal to min_relevance is kept), and the input itself when no constraint
\* is given.
C23_FilterConjunctive ==
    FilterCallOk =>
        /\ ~reply.value.raised
        /\ reply.value.results =
                Select(reply.results, {k \in 1..Len(reply.results) :
                                            Satisfies(reply.results[k], reply.filters)})
        /\ reply.filters = NoFilters => reply.value.results = reply.results

\* two results, the filters ask for two source kinds, a data type and a
\* minimum score; the first result fails on the score alone and the second,
\* whose score equals the minimum, is kept
C23_Witness ==
    /\ FilterCallOk /\ Len(reply.results) = 2
    /\ reply.filters.sources = <<"academic", "web">>
    /\ reply.filters.data_types # <<>>
    /\ reply.filters.min_relevance = MinRelevance(Threshold(90)).min_relevance
    /\ reply.results[1].source = "PubMed"
    /\ reply.results[2].relevance_score = HighScore
    /\ reply.value.results = <<reply.results[2]>>

\* C24: when a date range is applied, a result without a publication date
\* or with one that cannot be parsed is kept, and a result with a parseable
\* date is kept exactly when date_from <= date <= date_to.
C24_DateFailsOpen ==
    (/\ FilterCallOk
     /\ reply.filters.date_from # <<>> /\ reply.filters.date_to # <<>>
     /\ Parses(reply.filters.date_from[1]) /\ Parses(reply.filters.date_to[1])
     /\ reply.filters.sources = <<>> /\ reply.filters.data_types = <<>>
     /\ reply.filters.min_relevance = <<>>)
    => reply.value.results =
        Select(reply.results, {k \in 1..Len(reply.results) :
            LET pd == reply.results[k].publication_date IN
            \/ pd = <<>>
            \/ ~Parses(pd[1])
            \/ /\ reply.filters.date_from[1].t <= pd[1].t
               /\ pd[1].t <= reply.filters.date_to[1].t})

\* the filters without the fields that cannot be interpreted
Interpretable(filters) ==
    [filters EXCEPT
        !.min_relevance = IF @ = NotANumber THEN <<>> ELSE @,
        !.date_from = IF @ # <<>> /\ ~Parses(@[1]) THEN <<>> ELSE @,
        !.date_to = IF @ # <<>> /\ ~Parses(@[1]) THEN <<>> ELSE @]

\* C25: a search given a filter value that cannot be interpreted ends with a
\* response, and its results are those of the search without that filter.
C25_InvalidFilterIgnored ==
    \A p \in Procs :
        (Done(p) /\ ~proc[p].hit /\ Interpretable(proc[p].filters) # proc[p].filters)
        => /\ Responded(p)
           /\ proc[p].response[1].results =
                ResponsePage(SortByRelevance(
                    FilterResults(proc[p].all_results,
                                  Interpretable(proc[p].filters)).results))

\* C26: a cache-miss search that returns a response writes it to the cache
\* with a TTL of 6 hours, whatever its sources contributed; and a search
\* that starts less than 6 hours after the latest such write under its key
\* returns the response written, query id included, invokes no connector and
\* moves no counter, whether or not the hour bucket has changed since.
C26_DegradedResponseCached ==
    [][\A p \in Procs :
        LET key == GenerateCacheKey(proc'[p].query, proc'[p].filters) IN
        /\ (Returns(p) /\ proc'[p].outcome = "response") =>
                \E k \in 1..Len(cache') :
                    /\ cache'[k].cache_key = key
                    /\ <<cache'[k].data>> = proc'[p].response
                    /\ cache'[k].expires_at = now + 6
        /\ (Starts(p) /\ SetsOf(setLog, key) # {}
                      /\ now < setLog[LastSet(setLog, key)].at + 6) =>
                /\ proc'[p].hit /\ proc'[p].outcome = "response"
                /\ proc'[p].response = <<setLog[LastSet(setLog, key)].data>>
                /\ proc'[p].invoked = {}
                /\ UNCHANGED <<launches, rate_limits, allowLog, queries, results>>]_vars

\* a search whose web source was refused and whose arXiv call failed was
\* answered again, from the cache, in a later hour bucket
C26_Witness ==
    \E p, o \in Procs :
        /\ Built(o) /\ proc[o].refused # {} /\ proc[o].failed # {}
        /\ Responded(p) /\ proc[p].hit
        /\ proc[p].response = proc[o].response
        /\ now > proc[o].response[1].search_time

\* C27: sources_searched of a response built on a cache miss lists exactly
\* the source kinds whose connectors the search invoked.
C27_SourcesSearched ==
    \A p \in Procs :
        Built(p) =>
            ElementsOf(proc[p].response[1].sources_searched) = proc[p].invoked

\* the rows of research_results the latest save_results call left
RowsLeft == SubSeq(results, reply.seen + 1, Len(results))

\* C28: a save_results call in which the insert of a result fails raises and
\* leaves no row of its own; a call in which none fails leaves one row per
\* result of its list, in the order of the list, under its query id.
C28_SaveResultsAllOrNothing ==
    reply.op = "save_results" =>
        IF reply.bad > 0
        THEN reply.raised /\ RowsLeft = <<>>
        ELSE /\ ~reply.raised
             /\ Len(RowsLeft) = Len(reply.list)
             /\ \A k \in 1..Len(RowsLeft) :
                    /\ RowsLeft[k].query_id = reply.query_id
                    /\ RowsLeft[k].result = reply.list[k]

\* the second insert of a call failed after earlier calls had stored rows
C28_Witness ==
    /\ reply.op = "save_results" /\ reply.bad = 2 /\ reply.raised
    /\ reply.seen > 0 /\ Len(results) = reply.seen

\* the first page of 20 of the results persisted under the query id
FirstPageOf(query_id) ==
    LET got == GetQueryResults(results, query_id, 1, 20)
    IN  [k \in 1..Len(got.results) |-> got.results[k].result]

\* C29: after a cache-miss search returned a response with query id q,
\* get_query_results(q, 1, 20) lists the results of the response, in the
\* order of the response, also when results have equal scores.  It fails
\* when the second passes during save_results: the rows inserted after it
\* carry the later created_at and come first among the rows of their score.
C29_PersistedViewAgrees ==
    \A p \in Procs :
        Built(p) => FirstPageOf(proc[p].response[1].query_id) = proc[p].response[1].results

\* the stages run so far, in the order of the configuration: all completed
\* but the last one when its agent raised
StagesRun ==
    [k \in 1..workflow.ran |->
        [agent_id |-> workflow.stages[k], stage_name |-> workflow.stages[k],
         status |-> IF workflow.failed /\ k = workflow.ran THEN "error" ELSE "completed"]]

\* C30: run_workflow runs the configured stages in order and stops at the
\* first stage whose agent raises, and the stages_completed of the result it
\* returns lists every stage that was run, in order, the failed stage last
\* and marked error, when the workflow succeeds and when a stage fails.
C30_StagesCompleted ==
    (workflow.pc = "returned" /\ workflow.call = "run_workflow") =>
        LET result == workflow.result[1] IN
        /\ result.success <=> (~workflow.failed /\ workflow.ran = Len(workflow.stages))
        /\ \A k \in 1..workflow.ran :
                (workflow.failed /\ k = workflow.ran) \/ workflow.stages[k] \in AgentSpecs
        /\ result.stages_completed = StagesRun

====
